---- MODULE Spec2Model ----
(***************************************************************************)
(* Invoice extraction backend (server/src/modules/extract.js).             *)
(*                                                                         *)
(* Conventions of the model                                                *)
(*   - a string the code inspects character by character (an entity name)  *)
(*     is a sequence of one-character strings over Chars;                  *)
(*   - money is held in hundredths and a tax rate in percent, so that      *)
(*     unitPrice*qty*taxRate is the exact integer (unitPrice*qty*rate)/100 *)
(*     for the amounts used here (all multiples of 100);                   *)
(*   - the code reads every numeric field of a raw entity through `x||0`   *)
(*     or `x ? .. : ..`, so an absent field and a field holding 0 behave   *)
(*     alike; both are held as 0;                                          *)
(*   - an absent or empty identifier ('' , null, undefined) is NoId.       *)
(***************************************************************************)
EXTENDS Integers, Sequences, FiniteSets, TLC

VARIABLES
    \* one request (extractFromFiles)
    files,        \* the uploaded batch: the kind of each document
    fi,           \* index of the document the loop is at
    merged,       \* the accumulator `merged`
    cleaned,      \* `cleaned`, the result of cleanResults
    normalized,   \* `normalized`, the value returned
    pc,           \* position of the request: "received", "merging", an adapter await,
                  \* "done" (200), "rejected" (400) or "failed" (500)
    sent,         \* the results of the requests answered before this one
    \* the process environment
    env,          \* MODEL, API_VERSION, and whether GEMINI_API_KEY and GOOGLE_API_KEY are set
    \* one call of extractWithGemini / extractWithGeminiFromCSV
    aPc,          \* "idle", "fetch" (awaiting fetch), "parse", "returned" or "thrown"
    aEntry,       \* "file" (extractWithGemini) or "csv" (extractWithGeminiFromCSV)
    ci,           \* index of the candidate model the loop is at
    vi,           \* index of the API version httpGenerateContent is at
    nCalls,       \* number of fetches issued by this call
    httpLastErr,  \* httpGenerateContent: `lastErr`
    lastErr,      \* the adapter's `lastErr`
    aResult,      \* the value the adapter returned
    \* what the service answered (history, not program state)
    lastOutcome,  \* the service's answer to the latest fetch
    lastCi,       \* the candidate index of the latest fetch
    lastVi,       \* the API version index of the latest fetch
    notFound,     \* how many candidates of this call failed saying not found or 404
    responded,    \* whether a request of the probe was answered 200 with a JSON object
    text,         \* the response text the adapter parses
    \* one call of a function of the module on its own
    input,        \* the argument of the call
    output,       \* whether it has returned, and what
    \* the client (client/src/store): the Redux state of the three slices
    store

reqVars == <<files, fi, merged, cleaned, normalized, pc, sent>>

adapterVars ==
    <<aPc, aEntry, ci, vi, nCalls, httpLastErr, lastErr, aResult, lastOutcome, lastCi,
      lastVi, notFound, responded, text>>

fnVars == <<input, output>>

clientVars == <<store>>

vars == <<reqVars, env, adapterVars, fnVars, clientVars>>

----------------------------------------------------------------------------
(* Strings *)

Chars == {"a", "A", "b", "B", "g", "o", "t", "x", " ", ","}

NoId == <<>>

IsSpace(c) == c = " "

\* the lower-case letter of each upper-case letter
LowerOf ==
    [A |-> "a", B |-> "b", C |-> "c", D |-> "d", E |-> "e", F |-> "f",
     G |-> "g", H |-> "h", I |-> "i", J |-> "j", K |-> "k", L |-> "l",
     M |-> "m", N |-> "n", O |-> "o", P |-> "p", Q |-> "q", R |-> "r",
     S |-> "s", T |-> "t", U |-> "u", V |-> "v", W |-> "w", X |-> "x",
     Y |-> "y", Z |-> "z"]

\* the upper-case letter of each lower-case letter
UpperOf ==
    [a |-> "A", b |-> "B", c |-> "C", d |-> "D", e |-> "E", f |-> "F",
     g |-> "G", h |-> "H", i |-> "I", j |-> "J", k |-> "K", l |-> "L",
     m |-> "M", n |-> "N", o |-> "O", p |-> "P", q |-> "Q", r |-> "R",
     s |-> "S", t |-> "T", u |-> "U", v |-> "V", w |-> "W", x |-> "X",
     y |-> "Y", z |-> "Z"]

IsLetter(c) == c \in DOMAIN LowerOf \cup DOMAIN UpperOf

LowerChar(c) == IF c \in DOMAIN LowerOf THEN LowerOf[c] ELSE c

\* String.prototype.toLowerCase
toLowerCase(s) == [i \in 1..Len(s) |-> LowerChar(s[i])]

RECURSIVE TrimStart(_)
TrimStart(s) == IF s # <<>> /\ IsSpace(Head(s)) THEN TrimStart(Tail(s)) ELSE s

RECURSIVE TrimEnd(_)
TrimEnd(s) ==
    IF s # <<>> /\ IsSpace(s[Len(s)]) THEN TrimEnd(SubSeq(s, 1, Len(s) - 1)) ELSE s

\* String.prototype.trim
trim(s) == TrimEnd(TrimStart(s))

\* String.prototype.includes for a literal pattern
Includes(s, pat) ==
    \E i \in 1..(Len(s) - Len(pat) + 1) : SubSeq(s, i, i + Len(pat) - 1) = pat

----------------------------------------------------------------------------
(* JSON texts and values                                                    *)
(*                                                                          *)
(* A response text is a sequence of tokens: "{" and "}" (braces), "k" (a    *)
(* well-formed member such as "products":[{..}]), "x" (a member whose value *)
(* is not a list, such as "products":5), "n" (the literal null), "w" (a     *)
(* word of prose) and "F" (a markdown fence ```, with or without the json   *)
(* tag).  A JSON value is null or an object with its members.               *)

Tokens == {"{", "}", "k", "x", "n", "w", "F"}

Null == [kind |-> "null", members |-> <<>>]

Obj(ms) == [kind |-> "object", members |-> ms]

\* { products: [], customers: [], invoices: [] }
EmptyValue == Obj(<<>>)

\* JSON.parse: ok is FALSE where it throws SyntaxError
JSONparse(t) ==
    IF t = <<"n">> THEN [ok |-> TRUE, value |-> Null]
    ELSE IF /\ Len(t) >= 2 /\ t[1] = "{" /\ t[Len(t)] = "}"
            /\ \A i \in 2..(Len(t) - 1) : t[i] \in {"k", "x"}
         THEN [ok |-> TRUE, value |-> Obj(SubSeq(t, 2, Len(t) - 1))]
         ELSE [ok |-> FALSE, value |-> Null]

Failed == [ok |-> FALSE, value |-> Null]

\* String.prototype.indexOf / lastIndexOf, 1-based, 0 when absent
indexOf(t, c) ==
    IF \E i \in 1..Len(t) : t[i] = c
    THEN CHOOSE i \in 1..Len(t) : t[i] = c /\ \A j \in 1..(i - 1) : t[j] # c
    ELSE 0

lastIndexOf(t, c) ==
    IF \E i \in 1..Len(t) : t[i] = c
    THEN CHOOSE i \in 1..Len(t) : t[i] = c /\ \A j \in (i + 1)..Len(t) : t[j] # c
    ELSE 0

\* first strategy: JSON.parse(text)
DirectStrategy(t) == JSONparse(t)

\* second strategy: text.match(/```(?:json)?\s*([\s\S]*?)```/i), then
\* `if (m && m[1]) return JSON.parse(m[1])`
FenceStrategy(t) ==
    LET open == indexOf(t, "F")
        rest == SubSeq(t, open + 1, Len(t))
        close == indexOf(rest, "F")
        inner == SubSeq(rest, 1, close - 1)
    IN IF open = 0 \/ close = 0 \/ inner = <<>> THEN Failed ELSE JSONparse(inner)

\* third strategy: the slice from the first "{" to the last "}"
BraceStrategy(t) ==
    LET jsonStart == indexOf(t, "{")
        jsonEnd == lastIndexOf(t, "}")
    IN IF jsonStart >= 1 /\ jsonEnd >= jsonStart
       THEN JSONparse(SubSeq(t, jsonStart, jsonEnd))
       ELSE Failed

\* the three strategies tried with the third before the second
ParseResponse_BraceBeforeFence(t) ==
    IF DirectStrategy(t).ok THEN DirectStrategy(t).value
    ELSE IF BraceStrategy(t).ok THEN BraceStrategy(t).value
    ELSE IF FenceStrategy(t).ok THEN FenceStrategy(t).value
    ELSE EmptyValue

\* lines 663-681 and 748-757: the value the adapter returns for a text
ParseResponse(t) ==
    IF DirectStrategy(t).ok THEN DirectStrategy(t).value
    ELSE IF FenceStrategy(t).ok THEN FenceStrategy(t).value
    ELSE IF BraceStrategy(t).ok THEN BraceStrategy(t).value
    ELSE EmptyValue

----------------------------------------------------------------------------
(* The external service, as httpGenerateContent sees it                     *)
(*                                                                          *)
(* An error text and an error message are sequences of words.               *)

NoErr == <<>>

\* what res.json() can hold when the service answers 2xx
Envelope(t) == [kind |-> "envelope", text |-> t]

NullBody == [kind |-> "null", text |-> <<>>]

NotJson == [kind |-> "unparsable", text |-> <<>>]

BodyNotFoundForVersion ==
    <<"models/m", "is", "not", "found", "for", "API", "version", "v1">>

BodyNotFound == <<"resource", "not", "found">>

BodyQuota == <<"quota", "exceeded">>

\* the error responses of the service: status and text
ErrorResponses ==
    { <<404, BodyNotFoundForVersion>>, <<404, BodyQuota>>,
      <<429, BodyNotFound>>, <<429, BodyQuota>> }

\* the texts a success envelope carries here
ResponseTextMenu ==
    { <<"{", "k", "}">>,                    \* JSON
      <<"F", "{", "k", "k", "}", "F">>,     \* fenced JSON
      <<"w", "{", "k", "}", "w">>,          \* JSON inside prose
      <<"w", "w">>,                         \* prose
      <<"n">>,                              \* null
      <<"{", "x", "}">>,                    \* an object whose lists are not lists
      <<>> }                                \* no text part

TransportError == [kind |-> "transport", status |-> 0, body |-> <<>>, json |-> NotJson]

HttpError(status, body) ==
    [kind |-> "http", status |-> status, body |-> body, json |-> NotJson]

HttpOk(json) == [kind |-> "http", status |-> 200, body |-> <<>>, json |-> json]

\* res.ok
ResOk(o) == o.status >= 200 /\ o.status <= 299

\* `${res.status}`
StatusWord(status) ==
    CASE status = 404 -> "404"
      [] status = 429 -> "429"
      [] status = 200 -> "200"
      [] OTHER -> "0"

\* the i flag of the patterns, on the words used here
FoldWord(w) == IF w = "API" THEN "api" ELSE IF w = "HTTP" THEN "http" ELSE w

Fold(ws) == [i \in 1..Len(ws) |-> FoldWord(ws[i])]

\* new Error(`HTTP ${res.status}: ${text}`).message
HttpErrorMessage(o) == <<"HTTP", StatusWord(o.status)>> \o o.body

\* the message of the TypeError fetch rejects with
FetchFailedMessage == <<"fetch", "failed">>

\* the message of the SyntaxError res.json() throws
SyntaxErrorMessage == <<"Unexpected", "token">>

\* the message of the TypeError of reading json.candidates of null
NullReadMessage == <<"Cannot", "read", "properties", "of", "null">>

\* res.status === 404 && /not found for API version/i.test(text)
NotFoundForVersion(o) ==
    o.status = 404 /\ Includes(Fold(o.body), <<"not", "found", "for", "api", "version">>)

\* a message of the "model not found" class: it says not found, or carries 404
\* (what the history variable notFound counts)
IsNotFoundClass(msg) ==
    \E i \in 1..Len(msg) :
        \/ msg[i] = "404"
        \/ i < Len(msg) /\ msg[i] = "not" /\ msg[i + 1] = "found"

\* /not found|404/i.test(msg) with the matching reading replaced by none
Retryable_Never(msg) == FALSE

\* /not found|404/i.test(msg) with the matching reading replaced by all
Retryable_Always(msg) == TRUE

\* /not found|404/i.test(msg)
Retryable(msg) ==
    Includes(Fold(msg), <<"not", "found">>) \/ Includes(Fold(msg), <<"404">>)

\* Array.from(new Set(list))
RECURSIVE Dedup(_)
Dedup(list) ==
    IF list = <<>> THEN <<>>
    ELSE LET front == Dedup(SubSeq(list, 1, Len(list) - 1))
             last == list[Len(list)]
         IN IF \E i \in 1..Len(front) : front[i] = last THEN front
            ELSE Append(front, last)

DefaultModel == "gemini-1.5-pro-latest"

FixedCandidates ==
    << "gemini-2.5-flash", "gemini-2.0-flash", "gemini-2.0-pro", "gemini-2.0-flash-lite",
       "gemini-1.5-pro", "gemini-1.5-pro-001", "gemini-1.5-pro-002",
       "gemini-1.5-flash", "gemini-1.5-flash-001", "gemini-1.5-flash-002",
       "gemini-1.5-pro-latest", "gemini-1.5-flash-latest",
       "gemini-1.5-flash-8b", "gemini-1.5-flash-8b-latest",
       "gemini-pro-vision", "gemini-1.0-pro-vision", "gemini-1.0-pro-vision-latest" >>

\* the candidate list of extractWithGemini and of extractWithGeminiFromCSV
candidates == Dedup(<<env.MODEL>> \o FixedCandidates)

\* the revisions with v1beta put first
versionsToTry_BetaFirst == Dedup(<<"v1beta", env.API_VERSION>>)

\* httpGenerateContent: Array.from(new Set([API_VERSION, 'v1beta']))
versionsToTry == Dedup(<<env.API_VERSION, "v1beta">>)

\* json.candidates?.[0]?.content?.parts?.[0]?.text || JSON.stringify(json)
ResponseText(json) == IF json.text # <<>> THEN json.text ELSE <<"{", "}">>

\* the key test answering yes whatever the environment holds
API_KEY_AlwaysSet == TRUE

\* const API_KEY = process.env.GEMINI_API_KEY || process.env.GOOGLE_API_KEY
API_KEY == env.GEMINI_API_KEY \/ env.GOOGLE_API_KEY

\* const AI_ENABLED = !!process.env.GOOGLE_API_KEY
AI_ENABLED == env.GOOGLE_API_KEY

\* environments in which the adapters are called (API_KEY is set)
Envs ==
    [MODEL : {DefaultModel, "custom-model"}, API_VERSION : {"v1", "v1beta"},
     GEMINI_API_KEY : {FALSE}, GOOGLE_API_KEY : {TRUE}]

----------------------------------------------------------------------------
(* The fragment accumulated by extractFromFiles *)

EmptyFragment == [products |-> <<>>, customers |-> <<>>, invoices |-> <<>>]

\* merge putting the source's entities before the target's
merge_SrcFirst(target, src) ==
    [products  |-> src.products \o target.products,
     customers |-> src.customers \o target.customers,
     invoices  |-> src.invoices \o target.invoices]

\* merge(target, src): in-place append of the three lists
merge(target, src) ==
    [products  |-> target.products \o src.products,
     customers |-> target.customers \o src.customers,
     invoices  |-> target.invoices \o src.invoices]

----------------------------------------------------------------------------
(* cleanResults *)

HasComma(s) == \E i \in 1..Len(s) : s[i] = ","

HasDigit(s) == \E i \in 1..Len(s) : s[i] \in {"0", "1", "2", "3", "4", "5", "6", "7", "8", "9"}

UpperChar(c) == IF c \in DOMAIN UpperOf THEN UpperOf[c] ELSE c

toUpperCase(s) == [i \in 1..Len(s) |-> UpperChar(s[i])]

\* The keywords of the address/meta pattern (line 844) and of the survey/noise
\* pattern (line 853) that can be spelled with the letters of Chars.
CleanerKeywords == {<<"g", "o", "a">>}

\* /^[a-z]{2,}\s+[a-z]{2,}$/i
TwoWords(s) ==
    \E i \in 2..Len(s), j \in 2..Len(s) :
        /\ i < j /\ j + 1 <= Len(s) - 1
        /\ \A k \in 1..i : IsLetter(s[k])
        /\ \A k \in (i + 1)..j : IsSpace(s[k])
        /\ \A k \in (j + 1)..Len(s) : IsLetter(s[k])

badName(name) ==
    \/ trim(name) = <<>>
    \/ \E kw \in CleanerKeywords : Includes(toLowerCase(name), kw)
    \/ Len(name) > 60 /\ HasComma(name)
    \/ TrimEnd(name) # <<>> /\ TrimEnd(name)[Len(TrimEnd(name))] = "," /\ ~HasDigit(name)
    \/ Len(name) > 20 /\ name = toUpperCase(name)
          /\ \E i \in 1..(Len(name) - 1) :
                name[i] \in {"A", "B", "G", "O"} /\ name[i + 1] = ","
    \/ TwoWords(name) /\ Len(name) <= 10

KeepProduct(p) == ~badName(p.name)

KeepItem(it) == ~badName(it.productName) /\ (it.unitPrice > 0 \/ it.qty > 0)

cleanInvoice(inv) == [inv EXCEPT !.items = SelectSeq(@, KeepItem)]

cleanResults(raw) ==
    [products  |-> SelectSeq(raw.products, KeepProduct),
     customers |-> raw.customers,
     invoices  |-> [i \in 1..Len(raw.invoices) |-> cleanInvoice(raw.invoices[i])]]

----------------------------------------------------------------------------
(* normalize *)

\* A Map from lowercased name to id, held as a set of <<key, id>> pairs.
MapHas(m, key) == \E e \in m : e[1] = key

MapGet(m, key) == (CHOOSE e \in m : e[1] = key)[2]

MapSet(m, key, id) == {e \in m : e[1] # key} \cup {<<key, id>>}

\* x * rate for a rate held in percent
Pct(x, rate) == (x * rate) \div 100

NormInit ==
    [products |-> <<>>, customers |-> <<>>,
     productIdByName |-> {}, customerIdByName |-> {}]

\* addProduct deriving priceWithTax without the tax
addProduct_PriceWithoutTax(st, p) ==
    LET key == toLowerCase(p.name) IN
    IF key = <<>> THEN [st |-> st, id |-> NoId]
    ELSE IF ~MapHas(st.productIdByName, key) THEN
        LET id == <<"prod", Len(st.products) + 1>> IN
        [st |-> [st EXCEPT
                    !.productIdByName = MapSet(@, key, id),
                    !.products = Append(@,
                        [id |-> id,
                         name |-> p.name,
                         unitPrice |-> p.unitPrice,
                         taxRate |-> p.taxRate,
                         priceWithTax |->
                            IF p.priceWithTax # 0 THEN p.priceWithTax
                            ELSE p.unitPrice,
                         quantity |-> p.quantity,
                         discount |-> p.discount])],
         id |-> id]
    ELSE [st |-> st, id |-> MapGet(st.productIdByName, key)]

\* addProduct: the product table after the call, and the id it returns
addProduct(st, p) ==
    LET key == toLowerCase(p.name) IN
    IF key = <<>> THEN [st |-> st, id |-> NoId]
    ELSE IF ~MapHas(st.productIdByName, key) THEN
        LET id == <<"prod", Len(st.products) + 1>> IN
        [st |-> [st EXCEPT
                    !.productIdByName = MapSet(@, key, id),
                    !.products = Append(@,
                        [id |-> id,
                         name |-> p.name,
                         unitPrice |-> p.unitPrice,
                         taxRate |-> p.taxRate,
                         priceWithTax |->
                            IF p.priceWithTax # 0 THEN p.priceWithTax
                            ELSE p.unitPrice + Pct(p.unitPrice, p.taxRate),
                         quantity |-> p.quantity,
                         discount |-> p.discount])],
         id |-> id]
    ELSE [st |-> st, id |-> MapGet(st.productIdByName, key)]

\* addCustomer keyed by the name as written
addCustomer_CaseSensitive(st, c) ==
    LET key == c.name IN
    IF key = <<>> THEN [st |-> st, id |-> NoId]
    ELSE IF ~MapHas(st.customerIdByName, key) THEN
        LET id == <<"cust", Len(st.customers) + 1>> IN
        [st |-> [st EXCEPT
                    !.customerIdByName = MapSet(@, key, id),
                    !.customers = Append(@,
                        [id |-> id,
                         name |-> c.name,
                         phone |-> c.phone,
                         totalPurchase |-> c.totalPurchase])],
         id |-> id]
    ELSE [st |-> st, id |-> MapGet(st.customerIdByName, key)]

\* addCustomer: the customer table after the call, and the id it returns
addCustomer(st, c) ==
    LET key == toLowerCase(c.name) IN
    IF key = <<>> THEN [st |-> st, id |-> NoId]
    ELSE IF ~MapHas(st.customerIdByName, key) THEN
        LET id == <<"cust", Len(st.customers) + 1>> IN
        [st |-> [st EXCEPT
                    !.customerIdByName = MapSet(@, key, id),
                    !.customers = Append(@,
                        [id |-> id,
                         name |-> c.name,
                         phone |-> c.phone,
                         totalPurchase |-> c.totalPurchase])],
         id |-> id]
    ELSE [st |-> st, id |-> MapGet(st.customerIdByName, key)]

\* for (const p of raw.products) addProduct(p)
RECURSIVE seedProducts(_, _)
seedProducts(st, ps) ==
    IF ps = <<>> THEN st ELSE seedProducts(addProduct(st, Head(ps)).st, Tail(ps))

\* the fragment-level customers left unregistered
seedCustomers_Skipped(st, cs) == st

\* for (const c of raw.customers) addCustomer(c)
RECURSIVE seedCustomers(_, _)
seedCustomers(st, cs) ==
    IF cs = <<>> THEN st ELSE seedCustomers(addCustomer(st, Head(cs)).st, Tail(cs))

\* it.productId || addProduct({ name, unitPrice, taxRate, quantity: it.qty })
resolveItem(st, it) ==
    IF it.productId # NoId THEN [st |-> st, id |-> it.productId]
    ELSE addProduct(st, [name |-> it.productName, unitPrice |-> it.unitPrice,
                         taxRate |-> it.taxRate, priceWithTax |-> 0,
                         quantity |-> it.qty, discount |-> 0])

\* (inv.items||[]).map(...): the table after the map, and the mapped items
RECURSIVE mapItems(_, _, _)
mapItems(st, its, out) ==
    IF its = <<>> THEN [st |-> st, items |-> out]
    ELSE LET r == resolveItem(st, Head(its)) IN
         mapItems(r.st, Tail(its),
                  Append(out, [productId |-> r.id, qty |-> Head(its).qty,
                               unitPrice |-> Head(its).unitPrice,
                               taxRate |-> Head(its).taxRate]))

\* items.reduce((s, it) => s + it.unitPrice * it.qty, 0)
RECURSIVE subtotalOf(_)
subtotalOf(items) ==
    IF items = <<>> THEN 0
    ELSE Head(items).unitPrice * Head(items).qty + subtotalOf(Tail(items))

\* items.reduce((s, it) => s + it.unitPrice * it.qty * it.taxRate, 0)
RECURSIVE taxOf(_)
taxOf(items) ==
    IF items = <<>> THEN 0
    ELSE Pct(Head(items).unitPrice * Head(items).qty, Head(items).taxRate)
            + taxOf(Tail(items))

\* totalOf with the tax left out of the computed total
totalOf_NoTax(inv, items) ==
    IF inv.totalAmount # 0 THEN inv.totalAmount ELSE subtotalOf(items)

\* Number(inv.totalAmount||0) || (subtotal + tax)
totalOf(inv, items) ==
    IF inv.totalAmount # 0 THEN inv.totalAmount ELSE subtotalOf(items) + taxOf(items)

\* the tax stored on the output invoice
invoiceTax(inv, items) == taxOf(items)

\* the body of `for (const inv of raw.invoices)`
RECURSIVE normInvoices(_, _, _)
normInvoices(st, invs, out) ==
    IF invs = <<>> THEN [st |-> st, invoices |-> out]
    ELSE LET inv == Head(invs)
             c   == addCustomer(st, [name |-> inv.customerName, phone |-> "",
                                     totalPurchase |-> 0])
             m   == mapItems(c.st, inv.items, <<>>)
         IN normInvoices(m.st, Tail(invs),
                Append(out,
                    [id |-> <<"inv", Len(out) + 1>>,
                     serialNumber |-> inv.serialNumber,
                     customerId |-> c.id,
                     items |-> m.items,
                     tax |-> invoiceTax(inv, m.items),
                     totalAmount |-> totalOf(inv, m.items),
                     date |-> inv.date]))

\* totalsByCustomer.get(id): the sum over the invoices of that customer
RECURSIVE totalsByCustomer(_, _)
totalsByCustomer(invs, id) ==
    IF invs = <<>> THEN 0
    ELSE (IF Head(invs).customerId # NoId /\ Head(invs).customerId = id
          THEN Head(invs).totalAmount ELSE 0) + totalsByCustomer(Tail(invs), id)

\* recomputeTotal without the fallback to the supplied value
recomputeTotal_NoFallback(invs, c) == totalsByCustomer(invs, c.id)

\* c.totalPurchase = totalsByCustomer.get(c.id) || c.totalPurchase || 0
recomputeTotal(invs, c) ==
    IF totalsByCustomer(invs, c.id) # 0 THEN totalsByCustomer(invs, c.id)
    ELSE c.totalPurchase

normalize(raw) ==
    LET s1 == seedProducts(NormInit, raw.products)
        s2 == seedCustomers(s1, raw.customers)
        r  == normInvoices(s2, raw.invoices, <<>>)
    IN [products  |-> r.st.products,
        customers |-> [i \in 1..Len(r.st.customers) |->
                         [r.st.customers[i] EXCEPT
                            !.totalPurchase = recomputeTotal(r.invoices, r.st.customers[i])]],
        invoices  |-> r.invoices]

----------------------------------------------------------------------------
(* Raw entities a document's fragment can carry (the schema of lines 50-82; *)
(* the external service may add a productId to an item)                     *)

nA     == <<"a">>
nUpA   == <<"A">>
nASp   == <<"a", " ">>
nB     == <<"b">>
nBlank == <<" ">>
nGoa   == <<"g", "o", "a">>
nEmpty == <<>>

RawProduct(n, up, tr, pwt, q) ==
    [name |-> n, unitPrice |-> up, taxRate |-> tr, priceWithTax |-> pwt,
     quantity |-> q, discount |-> 0]

RawCustomer(n, ph, tp) == [name |-> n, phone |-> ph, totalPurchase |-> tp]

RawItem(n, pid, q, up, tr) ==
    [productName |-> n, productId |-> pid, qty |-> q, unitPrice |-> up, taxRate |-> tr]

RawInvoice(sn, cn, its, tx, tot) ==
    [serialNumber |-> sn, customerName |-> cn, date |-> "", items |-> its,
     tax |-> tx, totalAmount |-> tot]

RawProductMenu ==
    { RawProduct(nA, 1000, 10, 0, 2),
      RawProduct(nUpA, 500, 0, 600, 0),
      RawProduct(nASp, 1000, 18, 0, 1),
      RawProduct(nGoa, 100, 0, 0, 1) }

RawCustomerMenu ==
    { RawCustomer(nA, "555", 7000),
      RawCustomer(nUpA, "", 0),
      RawCustomer(nASp, "777", 100),
      RawCustomer(nBlank, "", 0) }

ItemA    == RawItem(nA, NoId, 2, 1000, 10)
ItemUpA  == RawItem(nUpA, NoId, 1, 500, 0)
ItemASp  == RawItem(nASp, NoId, 1, 1000, 18)
ItemSku  == RawItem(nB, <<"sku", 9>>, 1, 300, 18)
ItemGoa  == RawItem(nGoa, NoId, 1, 100, 0)
ItemZero == RawItem(nB, NoId, 0, 0, 0)

RawInvoiceMenu ==
    { RawInvoice("S1", nA, <<ItemA, ItemUpA>>, 0, 0),
      RawInvoice("S2", nUpA, <<ItemA>>, 500, 5000),
      RawInvoice("S3", nASp, <<ItemASp>>, 0, 0),
      RawInvoice("", nEmpty, <<ItemSku>>, 0, 0),
      RawInvoice("S5", nA, <<ItemGoa, ItemZero>>, 0, 0),
      RawInvoice("S6", nB, <<ItemZero, ItemA>>, 0, 2500) }

\* The fragments one merge call appends: one entity, or nothing.
FragmentMenu ==
    {EmptyFragment}
    \cup {[EmptyFragment EXCEPT !.products = <<p>>] : p \in RawProductMenu}
    \cup {[EmptyFragment EXCEPT !.customers = <<c>>] : c \in RawCustomerMenu}
    \cup {[EmptyFragment EXCEPT !.invoices = <<v>>] : v \in RawInvoiceMenu}

MaxSeeds == 1

MaxInvoices == 2

----------------------------------------------------------------------------
(* extractFromExcelBuffer: the column picks                                 *)
(*                                                                          *)
(* A header is the sequence of its characters; a header row is the sequence *)
(* of its headers (Object.keys of the first row).                           *)

\* undefined: header.find found nothing
NoColumn == <<>>

\* the keyword lists of the nine picks, in the order the picks are made
RoleKeys ==
    [serialKey |->
        {<<"s", "e", "r", "i", "a", "l">>,
         <<"i", "n", "v", "o", "i", "c", "e">>, <<"i", "n", "v">>,
         <<"b", "i", "l", "l", " ", "n", "o">>, <<"b", "i", "l", "l">>,
         <<"s", "n", "o">>, <<"s", "r", " ", "n", "o">>},
     custKey |->
        {<<"c", "u", "s", "t", "o", "m", "e", "r">>,
         <<"p", "a", "r", "t", "y">>, <<"c", "l", "i", "e", "n", "t">>,
         <<"b", "u", "y", "e", "r">>, <<"n", "a", "m", "e">>},
     phoneKey |->
        {<<"p", "h", "o", "n", "e">>, <<"m", "o", "b", "i", "l", "e">>,
         <<"c", "o", "n", "t", "a", "c", "t">>},
     productKey |->
        {<<"p", "r", "o", "d", "u", "c", "t">>, <<"i", "t", "e", "m">>,
         <<"d", "e", "s", "c", "r", "i", "p", "t", "i", "o", "n">>},
     qtyKey |->
        {<<"q", "t", "y">>, <<"q", "u", "a", "n", "t", "i", "t", "y">>,
         <<"p", "c", "s">>, <<"p", "i", "e", "c", "e", "s">>,
         <<"u", "n", "i", "t", "s">>},
     priceKey |->
        {<<"u", "n", "i", "t", " ", "p", "r", "i", "c", "e">>,
         <<"u", "n", "i", "t">>, <<"p", "r", "i", "c", "e">>,
         <<"r", "a", "t", "e">>, <<"a", "m", "o", "u", "n", "t">>},
     taxKey |->
        {<<"t", "a", "x">>, <<"g", "s", "t">>, <<"c", "g", "s", "t">>,
         <<"s", "g", "s", "t">>, <<"i", "g", "s", "t">>, <<"v", "a", "t">>},
     totalKey |->
        {<<"g", "r", "a", "n", "d", " ", "t", "o", "t", "a", "l">>,
         <<"i", "n", "v", "o", "i", "c", "e", " ", "t", "o", "t", "a", "l">>,
         <<"t", "o", "t", "a", "l", " ", "a", "m", "o", "u", "n", "t">>,
         <<"t", "o", "t", "a", "l">>, <<"a", "m", "o", "u", "n", "t">>},
     dateKey |->
        {<<"i", "n", "v", "o", "i", "c", "e", " ", "d", "a", "t", "e">>,
         <<"b", "i", "l", "l", " ", "d", "a", "t", "e">>,
         <<"d", "a", "t", "e">>, <<"d", "t">>}]

\* h => keys.some(k => h.toLowerCase().includes(k))
HeaderMatches(h, keys) == \E k \in keys : Includes(toLowerCase(h), k)

\* pick(keys): header.find(...)
pick(header, keys) ==
    IF \E i \in 1..Len(header) : HeaderMatches(header[i], keys)
    THEN header[CHOOSE i \in 1..Len(header) :
                    /\ HeaderMatches(header[i], keys)
                    /\ \A j \in 1..(i - 1) : ~HeaderMatches(header[j], keys)]
    ELSE NoColumn

\* lines 180-188: the nine picks
PickColumns(header) == [r \in DOMAIN RoleKeys |-> pick(header, RoleKeys[r])]

----------------------------------------------------------------------------
(* extractFromExcelBuffer: the tax cell                                     *)
(*                                                                          *)
(* A tax cell and a tax rate of the column mapper are held in               *)
(* ten-thousandths (0.18 is 1800, 18 is 180000), so that taxRaw / 100 is    *)
(* exact for the cells used here (multiples of 0.01).                       *)

\* 1.0
TaxOne == 10000

\* the rescaling with the comparison taken as >=
rescaleTax_FromOne(taxRaw) == IF taxRaw >= TaxOne THEN taxRaw \div 100 ELSE taxRaw

\* const taxRate = taxRaw > 1.0 ? (taxRaw / 100) : taxRaw
rescaleTax(taxRaw) == IF taxRaw > TaxOne THEN taxRaw \div 100 ELSE taxRaw

----------------------------------------------------------------------------
(* extractWithGemini / extractWithGeminiFromCSV with httpGenerateContent    *)
(*                                                                          *)
(* The two adapters differ in the prompt and the parts they send; the loop, *)
(* the catch and the parsing are the same code twice.  The adapter waits in *)
(* one place, the fetch of httpGenerateContent; each action below is one    *)
(* answer of the service and everything the code does until the next fetch  *)
(* or until the response text is in hand.                                   *)

NoOutcome == [kind |-> "none", status |-> 0, body |-> <<>>, json |-> NotJson]

DefaultEnv ==
    [MODEL |-> DefaultModel, API_VERSION |-> "v1",
     GEMINI_API_KEY |-> FALSE, GOOGLE_API_KEY |-> TRUE]

\* neither key variable is set
NoKeyEnv == [DefaultEnv EXCEPT !.GOOGLE_API_KEY = FALSE]

\* only GEMINI_API_KEY is set
GeminiKeyEnv == [DefaultEnv EXCEPT !.GEMINI_API_KEY = TRUE, !.GOOGLE_API_KEY = FALSE]

\* both key variables are set
BothKeysEnv == [DefaultEnv EXCEPT !.GEMINI_API_KEY = TRUE]

AdapterIdle ==
    /\ aPc = "idle"
    /\ aEntry = "file"
    /\ ci = 1
    /\ vi = 1
    /\ nCalls = 0
    /\ httpLastErr = NoErr
    /\ lastErr = NoErr
    /\ aResult = EmptyValue
    /\ lastOutcome = NoOutcome
    /\ lastCi = 0
    /\ lastVi = 0
    /\ notFound = 0
    /\ responded = FALSE
    /\ text = <<>>

\* the adapter's locals go out of scope
AdapterReset ==
    /\ aPc' = "idle"
    /\ aEntry' = "file"
    /\ ci' = 1
    /\ vi' = 1
    /\ nCalls' = 0
    /\ httpLastErr' = NoErr
    /\ lastErr' = NoErr
    /\ aResult' = EmptyValue
    /\ lastOutcome' = NoOutcome
    /\ lastCi' = 0
    /\ lastVi' = 0
    /\ notFound' = 0
    /\ responded' = FALSE
    /\ text' = <<>>

\* entry of the adapter up to its first fetch
AdapterCall(entry) ==
    /\ aPc' = "fetch"
    /\ aEntry' = entry
    /\ ci' = 1
    /\ vi' = 1
    /\ nCalls' = 0
    /\ httpLastErr' = NoErr
    /\ lastErr' = NoErr
    /\ aResult' = EmptyValue
    /\ lastOutcome' = NoOutcome
    /\ lastCi' = 0
    /\ lastVi' = 0
    /\ notFound' = 0
    /\ responded' = FALSE
    /\ text' = <<>>

\* where the caller of extractWithGemini or extractWithGeminiFromCSV awaits it
AdapterCallers == {"adapter", "csv_call", "bin_call", "pdf_call", "other_call"}

\* the fetch that is answered
Answered(o) ==
    /\ pc \in AdapterCallers
    /\ aPc = "fetch"
    /\ nCalls' = nCalls + 1
    /\ lastOutcome' = o
    /\ lastCi' = ci
    /\ lastVi' = vi
    /\ UNCHANGED <<aEntry, responded, reqVars, env, fnVars, clientVars>>

\* the catch retrying the candidate that failed instead of moving on
Catch_RetrySameCandidate(msg) ==
    /\ lastErr' = msg
    /\ notFound' = IF IsNotFoundClass(msg) THEN notFound + 1 ELSE notFound
    /\ vi' = 1
    /\ httpLastErr' = NoErr
    /\ text' = text
    /\ ci' = ci
    /\ IF Retryable(msg)
       THEN aPc' = "fetch" /\ aResult' = aResult
       ELSE aPc' = "returned" /\ aResult' = EmptyValue

\* catch (e) of the candidate loop, then the `if (!result)` return
Catch(msg) ==
    /\ lastErr' = msg
    /\ notFound' = IF IsNotFoundClass(msg) THEN notFound + 1 ELSE notFound
    /\ vi' = 1
    /\ httpLastErr' = NoErr
    /\ text' = text
    /\ IF Retryable(msg) /\ ci < Len(candidates)
       THEN /\ ci' = ci + 1
            /\ aPc' = "fetch"
            /\ aResult' = aResult
       ELSE /\ ci' = ci
            /\ aPc' = "returned"
            /\ aResult' = EmptyValue

\* fetch rejects: no HTTP response
FetchTransportError ==
    /\ Answered(TransportError)
    /\ Catch(FetchFailedMessage)

\* fetch resolves with !res.ok
FetchHttpError(status, body) ==
    LET o == HttpError(status, body) IN
    /\ Answered(o)
    /\ IF NotFoundForVersion(o) /\ vi < Len(versionsToTry)
       THEN /\ httpLastErr' = HttpErrorMessage(o)
            /\ vi' = vi + 1
            /\ UNCHANGED <<aPc, ci, lastErr, aResult, notFound, text>>
       ELSE Catch(HttpErrorMessage(o))

\* fetch resolves with res.ok
FetchOk(json) ==
    /\ Answered(HttpOk(json))
    /\ CASE json.kind = "unparsable" -> Catch(SyntaxErrorMessage)
         [] json.kind = "null" ->
               /\ aPc' = "thrown"
               /\ lastErr' = NullReadMessage
               /\ UNCHANGED <<ci, vi, httpLastErr, aResult, notFound, text>>
         [] OTHER ->
               /\ aPc' = "parse"
               /\ text' = ResponseText(json)
               /\ UNCHANGED <<ci, vi, httpLastErr, lastErr, aResult, notFound>>

\* the three parse strategies on the response text, and the return
ParseText ==
    /\ pc \in AdapterCallers
    /\ aPc = "parse"
    /\ aPc' = "returned"
    /\ aResult' = ParseResponse(text)
    /\ UNCHANGED <<aEntry, ci, vi, nCalls, httpLastErr, lastErr, lastOutcome, lastCi,
                   lastVi, notFound, responded, text, reqVars, env, fnVars, clientVars>>

AdapterStep ==
    \/ FetchTransportError
    \/ \E r \in ErrorResponses : FetchHttpError(r[1], r[2])
    \/ \E json \in {NotJson, NullBody} \cup {Envelope(t) : t \in ResponseTextMenu} :
          FetchOk(json)
    \/ ParseText

\* no function is being called on its own
NoInput == <<>>

NotReturned == [returned |-> FALSE, value |-> FALSE]

Returned(v) == [returned |-> TRUE, value |-> v]

\* initialState of the slices: { byId: {}, allIds: [] }
EmptySlice == [byId |-> <<>>, allIds |-> <<>>]

EmptyStore == [products |-> EmptySlice, customers |-> EmptySlice, invoices |-> EmptySlice]

RequestIdleButInput ==
    /\ store = EmptyStore
    /\ files = <<>>
    /\ fi = 1
    /\ merged = EmptyFragment
    /\ cleaned = EmptyFragment
    /\ normalized = EmptyFragment
    /\ sent = <<>>

RequestIdle ==
    /\ RequestIdleButInput
    /\ input = NoInput
    /\ output = NotReturned

AdapterInit ==
    /\ RequestIdle
    /\ pc = "adapter"
    /\ env \in Envs
    /\ aPc = "fetch"
    /\ aEntry \in {"file", "csv"}
    /\ ci = 1
    /\ vi = 1
    /\ nCalls = 0
    /\ httpLastErr = NoErr
    /\ lastErr = NoErr
    /\ aResult = EmptyValue
    /\ lastOutcome = NoOutcome
    /\ lastCi = 0
    /\ lastVi = 0
    /\ notFound = 0
    /\ responded = FALSE
    /\ text = <<>>

SpecAdapter == AdapterInit /\ [][AdapterStep]_vars

----------------------------------------------------------------------------
(* GET /health and checkAIConnectivity                                      *)
(*                                                                          *)
(* The request is its query: input.deep says whether deep is "1" or "true". *)
(* The probe uses ci, vi,                                                   *)
(* httpLastErr, lastErr and the record of the last answer as the adapters   *)
(* do; aPc is "fetch" inside the first generateContent call of a candidate  *)
(* and "fetch2" inside the second.                                          *)

\* the candidate list of checkAIConnectivity: no duplicates removed
ProbeCandidates ==
    <<env.MODEL, "gemini-2.5-flash", "gemini-2.0-flash", "gemini-1.5-flash",
      "gemini-1.5-flash-8b", "gemini-1.5-pro">>

\* the ai member of the answer: valid and error are there when probed
HealthAi(probed, valid, error) ==
    [enabled |-> AI_ENABLED, probed |-> probed, valid |-> valid, error |-> error]

\* String(lastErr?.message || 'UNKNOWN')
ProbeErrorString(err) == IF err = NoErr THEN <<"UNKNOWN">> ELSE err

HealthUnchanged ==
    UNCHANGED <<files, fi, merged, cleaned, normalized, sent, env, input, store,
                aEntry, aResult, notFound, text>>

\* GET /health up to the await of checkAIConnectivity, or to res.json
Health ==
    /\ pc = "health"
    /\ IF AI_ENABLED /\ input.deep
       THEN IF ~API_KEY
            THEN /\ pc' = "answered"
                 /\ aPc' = aPc
                 /\ output' = Returned(HealthAi(TRUE, FALSE, <<"NO_API_KEY">>))
            ELSE /\ pc' = "probe"
                 /\ aPc' = "fetch"
                 /\ UNCHANGED output
       ELSE /\ pc' = "answered"
            /\ aPc' = aPc
            /\ output' = Returned(HealthAi(FALSE, FALSE, NoErr))
    /\ UNCHANGED <<ci, vi, nCalls, httpLastErr, lastErr, lastOutcome, lastCi, lastVi,
                   responded>>
    /\ HealthUnchanged

\* the answer is HTTP 200 with a JSON object
RespondsSuccessfully(o) == o.kind = "http" /\ ResOk(o) /\ o.json.kind = "envelope"

\* the service answers the request of the probe
ProbeAnswered(o) ==
    /\ pc = "probe"
    /\ aPc \in {"fetch", "fetch2"}
    /\ nCalls' = nCalls + 1
    /\ lastOutcome' = o
    /\ lastCi' = ci
    /\ lastVi' = vi
    /\ responded' = (responded \/ RespondsSuccessfully(o))
    /\ HealthUnchanged

\* the return of checkAIConnectivity and the answer of the route
ProbeReturn(ok, err) ==
    /\ aPc' = "returned"
    /\ pc' = "answered"
    /\ output' = Returned(HealthAi(TRUE, ok, IF ok THEN NoErr ELSE ProbeErrorString(err)))

\* the end of the loop body for this candidate: the next one, or { ok: false }
ProbeNextCandidate(err) ==
    /\ lastErr' = err
    /\ vi' = 1
    /\ httpLastErr' = NoErr
    /\ IF ci < Len(ProbeCandidates)
       THEN /\ ci' = ci + 1
            /\ aPc' = "fetch"
            /\ UNCHANGED <<pc, output>>
       ELSE /\ ci' = ci
            /\ ProbeReturn(FALSE, err)

\* fetch rejects: httpGenerateContent rejects, catch (e) { lastErr = e }
ProbeTransportError ==
    /\ ProbeAnswered(TransportError)
    /\ ProbeNextCandidate(FetchFailedMessage)

\* fetch resolves with !res.ok: the next version, or the throw and the catch
ProbeHttpError(status, body) ==
    LET o == HttpError(status, body) IN
    /\ ProbeAnswered(o)
    /\ IF NotFoundForVersion(o) /\ vi < Len(versionsToTry)
       THEN /\ httpLastErr' = HttpErrorMessage(o)
            /\ vi' = vi + 1
            /\ UNCHANGED <<pc, output, aPc, ci, lastErr>>
       ELSE ProbeNextCandidate(HttpErrorMessage(o))

\* fetch resolves with res.ok: `json && json.candidates` of the first call
\* starts the second, whose value is not read
ProbeOk(json) ==
    /\ ProbeAnswered(HttpOk(json))
    /\ CASE json.kind = "unparsable" -> ProbeNextCandidate(SyntaxErrorMessage)
         [] aPc = "fetch" /\ json.kind = "null" -> ProbeNextCandidate(lastErr)
         [] aPc = "fetch" /\ json.kind = "envelope" ->
               /\ aPc' = "fetch2"
               /\ vi' = 1
               /\ httpLastErr' = NoErr
               /\ UNCHANGED <<pc, output, ci, lastErr>>
         [] OTHER ->
               /\ ProbeReturn(TRUE, NoErr)
               /\ UNCHANGED <<ci, vi, httpLastErr, lastErr>>

\* res.json has not been called
NotAnswered ==
    [returned |-> FALSE,
     value |-> [enabled |-> FALSE, probed |-> FALSE, valid |-> FALSE, error |-> NoErr]]

HealthInit ==
    /\ RequestIdleButInput
    /\ pc = "health"
    /\ env \in Envs \cup {NoKeyEnv, GeminiKeyEnv, BothKeysEnv}
    /\ AdapterIdle
    /\ input \in [deep : BOOLEAN]
    /\ output = NotAnswered

HealthNext ==
    \/ Health
    \/ ProbeTransportError
    \/ \E r \in ErrorResponses : ProbeHttpError(r[1], r[2])
    \/ \E json \in {NotJson, NullBody, Envelope(<<"{", "k", "}">>)} : ProbeOk(json)

SpecHealth == HealthInit /\ [][HealthNext]_vars

----------------------------------------------------------------------------
(* aiEcho, called on its own: the probe of one generateContent call per     *)
(* candidate                                                                *)

\* the candidate list of aiEcho
EchoCandidates ==
    Dedup(<<env.MODEL, "gemini-1.5-flash-8b", "gemini-1.5-flash", "gemini-1.5-pro">>)

\* what aiEcho resolves with
EchoResult(ok, error) == [ok |-> ok, error |-> error]

\* aiEcho has not resolved
NotEchoed == [returned |-> FALSE, value |-> EchoResult(FALSE, NoErr)]

EchoUnchanged ==
    UNCHANGED <<files, fi, merged, cleaned, normalized, sent, env, input, store,
                aEntry, aResult, notFound, responded, text>>

\* aiEcho up to its first fetch: without a key it returns NO_API_KEY
EchoEntry ==
    /\ pc = "aiEcho"
    /\ aPc = "idle"
    /\ IF ~API_KEY
       THEN /\ pc' = "echoed"
            /\ aPc' = "returned"
            /\ output' = Returned(EchoResult(FALSE, <<"NO_API_KEY">>))
       ELSE /\ aPc' = "fetch"
            /\ UNCHANGED <<pc, output>>
    /\ UNCHANGED <<ci, vi, nCalls, httpLastErr, lastErr, lastOutcome, lastCi, lastVi>>
    /\ EchoUnchanged

\* the service answers the request of aiEcho
EchoAnswered(o) ==
    /\ pc = "aiEcho"
    /\ aPc = "fetch"
    /\ nCalls' = nCalls + 1
    /\ lastOutcome' = o
    /\ lastCi' = ci
    /\ lastVi' = vi
    /\ EchoUnchanged

EchoReturn(ok, err) ==
    /\ aPc' = "returned"
    /\ pc' = "echoed"
    /\ output' = Returned(EchoResult(ok, IF ok THEN NoErr ELSE ProbeErrorString(err)))

\* catch (e) { lastErr = e }: the next candidate, or { ok: false }
EchoNextCandidate(err) ==
    /\ lastErr' = err
    /\ vi' = 1
    /\ httpLastErr' = NoErr
    /\ IF ci < Len(EchoCandidates)
       THEN /\ ci' = ci + 1
            /\ aPc' = "fetch"
            /\ UNCHANGED <<pc, output>>
       ELSE /\ ci' = ci
            /\ EchoReturn(FALSE, err)

EchoTransportError ==
    /\ EchoAnswered(TransportError)
    /\ EchoNextCandidate(FetchFailedMessage)

EchoHttpError(status, body) ==
    LET o == HttpError(status, body) IN
    /\ EchoAnswered(o)
    /\ IF NotFoundForVersion(o) /\ vi < Len(versionsToTry)
       THEN /\ httpLastErr' = HttpErrorMessage(o)
            /\ vi' = vi + 1
            /\ UNCHANGED <<pc, output, aPc, ci, lastErr>>
       ELSE EchoNextCandidate(HttpErrorMessage(o))

\* res.ok: any JSON body, null included, makes aiEcho return ok
EchoOk(json) ==
    /\ EchoAnswered(HttpOk(json))
    /\ IF json.kind = "unparsable"
       THEN EchoNextCandidate(SyntaxErrorMessage)
       ELSE /\ EchoReturn(TRUE, NoErr)
            /\ UNCHANGED <<ci, vi, httpLastErr, lastErr>>

EchoInit ==
    /\ RequestIdleButInput
    /\ pc = "aiEcho"
    /\ env \in {DefaultEnv, NoKeyEnv}
    /\ AdapterIdle
    /\ input = NoInput
    /\ output = NotEchoed

EchoNext ==
    \/ EchoEntry
    \/ EchoTransportError
    \/ \E r \in ErrorResponses : EchoHttpError(r[1], r[2])
    \/ \E json \in {NotJson, NullBody, Envelope(<<"{", "k", "}">>)} : EchoOk(json)

----------------------------------------------------------------------------
(* Response parsing on every text up to a length *)

MaxTextLen == 5

Texts == UNION {[1..n -> Tokens] : n \in 0..MaxTextLen}

ParseInit ==
    /\ RequestIdle
    /\ pc = "adapter"
    /\ env = DefaultEnv
    /\ aPc = "parse"
    /\ aEntry \in {"file", "csv"}
    /\ ci = 1
    /\ vi = 1
    /\ nCalls = 1
    /\ httpLastErr = NoErr
    /\ lastErr = NoErr
    /\ aResult = EmptyValue
    /\ lastOutcome = NoOutcome
    /\ lastCi = 1
    /\ lastVi = 1
    /\ notFound = 0
    /\ responded = FALSE
    /\ text \in Texts

SpecParse == ParseInit /\ [][ParseText]_vars

----------------------------------------------------------------------------
(* The tail of extractFromFiles: merge, then cleanResults and normalize *)

NormInitState ==
    /\ RequestIdle
    /\ pc = "merging"
    /\ env = DefaultEnv
    /\ AdapterIdle

\* merge(merged, src) for the fragment src of one document
MergeFragment(src) ==
    /\ pc = "merging"
    /\ Len(merged.products) + Len(src.products) <= MaxSeeds
    /\ Len(merged.customers) + Len(src.customers) <= MaxSeeds
    /\ Len(merged.invoices) + Len(src.invoices) <= MaxInvoices
    /\ merged' = merge(merged, src)
    /\ UNCHANGED <<files, fi, cleaned, normalized, pc, sent, env, fnVars, clientVars, adapterVars>>

\* const cleaned = cleanResults(merged); const normalized = normalize(cleaned)
CleanAndNormalize ==
    /\ pc = "merging"
    /\ fi > Len(files)
    /\ cleaned' = cleanResults(merged)
    /\ normalized' = normalize(cleanResults(merged))
    /\ pc' = "done"
    /\ UNCHANGED <<files, fi, merged, sent, env, fnVars, clientVars, adapterVars>>

NormNext ==
    \/ \E src \in FragmentMenu : MergeFragment(src)
    \/ CleanAndNormalize

SpecNorm == NormInitState /\ [][NormNext]_vars

----------------------------------------------------------------------------
(* The same batch submitted in two requests, one after the other *)

\* res.json(result), then a second POST /api/extract with the same documents:
\* extractFromFiles starts again with a fresh accumulator and receives the
\* same fragments
Resubmit ==
    /\ pc = "done"
    /\ sent = <<>>
    /\ sent' = Append(sent, normalized)
    /\ merged' = merged
    /\ cleaned' = EmptyFragment
    /\ normalized' = EmptyFragment
    /\ pc' = "merging"
    /\ UNCHANGED <<files, fi, env, fnVars, clientVars, adapterVars>>

TwiceNext ==
    \/ \E src \in FragmentMenu : sent = <<>> /\ MergeFragment(src)
    \/ CleanAndNormalize
    \/ Resubmit

SpecTwice == NormInitState /\ [][TwiceNext]_vars

----------------------------------------------------------------------------
(* extractFromFiles: the loop over the documents of one request             *)
(*                                                                          *)
(* A document is "sheet" (xls, xlsx, csv), "pdf" or "other" by its file     *)
(* extension.  What a decoder makes of a document is an input of the step   *)
(* that decodes it.  A value an adapter returned is seen through FromJson:  *)
(* member "k" is "products":[P] for one product P, member "x" is            *)
(* "customers":5.                                                           *)

MaxFiles == 2

DocKinds == {"sheet", "pdf", "other"}

nBag == <<"b", "a", "g">>

AiProduct == RawProduct(nBag, 1000, 18, 0, 1)

\* the JavaScript value a parsed response is, as merge and the length tests read it:
\* null or an object, whether its customers is a number, and its lists
FromJson(v) ==
    [kind |-> v.kind,
     bad  |-> \E i \in 1..Len(v.members) : v.members[i] = "x",
     frag |-> IF \E i \in 1..Len(v.members) : v.members[i] = "k"
              THEN [EmptyFragment EXCEPT !.products = <<AiProduct>>]
              ELSE EmptyFragment]

\* products?.length || customers?.length || invoices?.length
HasEntities(frag) ==
    Len(frag.products) > 0 \/ Len(frag.customers) > 0 \/ Len(frag.invoices) > 0

\* the entity test of the CSV result answering yes to everything
NonEmptySrc_Always(src) == TRUE

\* aiFromCsv && (aiFromCsv.products?.length || ...): a number has no length
NonEmptySrc(src) ==
    /\ src.kind = "object"
    /\ \/ Len(src.frag.products) > 0
       \/ ~src.bad /\ Len(src.frag.customers) > 0
       \/ Len(src.frag.invoices) > 0

\* merge(merged, src) for a value an adapter returned: reading .products of
\* null throws; spreading a number throws after the products were pushed
mergeSrc(target, src) ==
    IF src.kind = "null" THEN [threw |-> TRUE, target |-> target]
    ELSE IF src.bad
         THEN [threw |-> TRUE,
               target |-> [target EXCEPT !.products = target.products \o src.frag.products]]
         ELSE [threw |-> FALSE, target |-> merge(target, src.frag)]

\* the badWords of shouldEnhanceWithAI that the letters of Chars can spell
EnhancerKeywords == {<<"t", "a", "x">>}

\* shouldEnhanceWithAI(result) for a fragment the PDF decoder returned
shouldEnhanceWithAI(result) ==
    LET products == result.products
        invoices == result.invoices
        totalItems == IF Len(invoices) > 0 THEN Len(invoices[1].items) ELSE 0
        short(i) == Len(products[i].name) < 3
        badWord(i) == \E k \in EnhancerKeywords : Includes(toLowerCase(products[i].name), k)
        addressLine(i) == Len(products[i].name) > 40 /\ HasComma(products[i].name)
        idx == 1..Len(products)
        suspicious == Cardinality({i \in idx : short(i)})
                      + Cardinality({i \in idx : ~short(i) /\ badWord(i)})
                      + Cardinality({i \in idx : ~short(i) /\ addressLine(i)})
    IN \/ Len(products) = 0 /\ totalItems = 0
       \/ Len(products) > 0 /\ 2 * suspicious >= Len(products)
       \/ Len(products) > 0 /\ \A i \in idx : products[i].unitPrice = 0
       \/ Len(invoices) > 0 /\ (invoices[1].date = "" \/ Len(invoices[1].items) = 0)

\* what extractFromExcelBuffer returns here when it returns entities
SheetFragment ==
    [products  |-> <<RawProduct(nA, 1000, 10, 0, 2)>>,
     customers |-> <<RawCustomer(nA, "555", 7000)>>,
     invoices  |-> <<RawInvoice("S1", nA, <<ItemA>>, 0, 0)>>]

SheetFragmentMenu == {EmptyFragment, SheetFragment}

ItemBag == RawItem(nBag, NoId, 1, 1000, 18)

\* a PDF whose text gave a customer and a total but no item rows
PdfNoItems ==
    [products  |-> <<>>,
     customers |-> <<RawCustomer(nB, "", 2500)>>,
     invoices  |-> <<RawInvoice("S6", nB, <<>>, 0, 2500)>>]

\* a PDF whose text gave an item row, a customer and a date
PdfGood ==
    [products  |-> <<RawProduct(nBag, 1000, 18, 1180, 1)>>,
     customers |-> <<RawCustomer(nB, "", 1180)>>,
     invoices  |-> <<[RawInvoice("S7", nB, <<ItemBag>>, 0, 1180) EXCEPT !.date = "2024-01-05"]>>]

\* EmptyFragment: no text, nothing meaningful, or pdfParse raised (the catch
\* of extractFromPdfBuffer returns the empty fragment)
PdfFragmentMenu == {EmptyFragment, PdfNoItems, PdfGood}

AtDocument(kind) ==
    /\ pc = "merging"
    /\ fi <= Len(files)
    /\ files[fi] = kind

\* end of the loop body for this document
NextDoc(m) ==
    /\ merged' = m
    /\ fi' = fi + 1
    /\ pc' = "merging"
    /\ UNCHANGED <<files, cleaned, normalized, sent, env, fnVars, clientVars>>

\* an exception leaves extractFromFiles: the route answers 500
Fail(m) ==
    /\ merged' = m
    /\ pc' = "failed"
    /\ UNCHANGED <<files, fi, cleaned, normalized, sent, env, fnVars, clientVars>>

\* the loop body up to the await of an adapter
StartAdapter(entry, at, m) ==
    /\ merged' = m
    /\ pc' = at
    /\ AdapterCall(entry)
    /\ UNCHANGED <<files, fi, cleaned, normalized, sent, env, fnVars, clientVars>>

\* line 97: xlsx.read raises on the document
SheetDecoderRaises ==
    /\ AtDocument("sheet")
    /\ Fail(merged)
    /\ UNCHANGED adapterVars

\* lines 97-122 up to the first await of an adapter, or to the merge
SheetDecoded(frag, csvHasText) ==
    /\ AtDocument("sheet")
    /\ HasEntities(frag) => csvHasText
    /\ IF API_KEY /\ ~HasEntities(frag)
       THEN IF csvHasText
            THEN StartAdapter("csv", "csv_call", merged)
            ELSE StartAdapter("file", "bin_call", merged)
       ELSE NextDoc(merge(merged, frag)) /\ UNCHANGED adapterVars

\* lines 106-122 after extractWithGeminiFromCSV returned
CsvReturned ==
    /\ pc = "csv_call"
    /\ aPc = "returned"
    /\ LET aiFromCsv == FromJson(aResult)
           r == mergeSrc(merged, aiFromCsv)
       IN IF NonEmptySrc(aiFromCsv)
          THEN /\ IF r.threw THEN Fail(r.target) ELSE NextDoc(r.target)
               /\ AdapterReset
          ELSE StartAdapter("file", "bin_call", merged)

\* lines 111-119 after extractWithGeminiFromCSV threw: catch {}
CsvThrew ==
    /\ pc = "csv_call"
    /\ aPc = "thrown"
    /\ StartAdapter("file", "bin_call", merged)

\* lines 120-122 after the binary fallback returned
BinReturned ==
    /\ pc = "bin_call"
    /\ aPc = "returned"
    /\ LET r == mergeSrc(merged, FromJson(aResult))
       IN IF r.threw THEN Fail(r.target) ELSE NextDoc(r.target)
    /\ AdapterReset

\* line 115: the binary fallback threw, outside any try
BinThrew ==
    /\ pc = "bin_call"
    /\ aPc = "thrown"
    /\ Fail(merged)
    /\ AdapterReset

\* lines 125-130 up to the await of extractWithGemini, or to the end of the body
PdfDecoded(fromPdf) ==
    /\ AtDocument("pdf")
    /\ IF API_KEY /\ shouldEnhanceWithAI(fromPdf)
       THEN StartAdapter("file", "pdf_call", merge(merged, fromPdf))
       ELSE NextDoc(merge(merged, fromPdf)) /\ UNCHANGED adapterVars

\* the external fragment put in the place of what was merged before
PdfReturned_Replacing ==
    /\ pc = "pdf_call"
    /\ aPc = "returned"
    /\ NextDoc(FromJson(aResult).frag)
    /\ AdapterReset

\* lines 131-135 after extractWithGemini returned: merge inside the try
PdfReturned ==
    /\ pc = "pdf_call"
    /\ aPc = "returned"
    /\ NextDoc(mergeSrc(merged, FromJson(aResult)).target)
    /\ AdapterReset

\* lines 133-135 after extractWithGemini threw: caught
PdfThrew ==
    /\ pc = "pdf_call"
    /\ aPc = "thrown"
    /\ NextDoc(merged)
    /\ AdapterReset

\* lines 137-144 up to the await of extractWithGemini, or the empty merge
OtherDoc ==
    /\ AtDocument("other")
    /\ IF API_KEY
       THEN StartAdapter("file", "other_call", merged)
       ELSE NextDoc(merge(merged, EmptyFragment)) /\ UNCHANGED adapterVars

\* line 140 after extractWithGemini returned
OtherReturned ==
    /\ pc = "other_call"
    /\ aPc = "returned"
    /\ LET r == mergeSrc(merged, FromJson(aResult))
       IN IF r.threw THEN Fail(r.target) ELSE NextDoc(r.target)
    /\ AdapterReset

\* line 139: extractWithGemini threw, outside any try
OtherThrew ==
    /\ pc = "other_call"
    /\ aPc = "thrown"
    /\ Fail(merged)
    /\ AdapterReset

\* !files.length with the test never taken
NoFiles_Never(fs) == FALSE

\* !files.length
NoFiles(fs) == Len(fs) = 0

\* POST /api/extract up to the await of extractFromFiles: 400 on an empty batch
Submit ==
    /\ pc = "received"
    /\ sent = <<>>
    /\ input = NoInput
    /\ output = NotReturned
    /\ pc' = IF NoFiles(files) THEN "rejected" ELSE "merging"
    /\ UNCHANGED <<files, fi, merged, cleaned, normalized, sent, env, fnVars, clientVars, adapterVars>>

FilesInit ==
    /\ store = EmptyStore
    /\ files \in UNION {[1..n -> DocKinds] : n \in 0..MaxFiles}
    /\ fi = 1
    /\ merged = EmptyFragment
    /\ cleaned = EmptyFragment
    /\ normalized = EmptyFragment
    /\ pc = "received"
    /\ sent = <<>>
    /\ input = NoInput
    /\ output = NotReturned
    /\ env \in {DefaultEnv, NoKeyEnv}
    /\ AdapterIdle

FilesNext ==
    \/ Submit
    \/ SheetDecoderRaises
    \/ \E frag \in SheetFragmentMenu, csvHasText \in BOOLEAN : SheetDecoded(frag, csvHasText)
    \/ CsvReturned
    \/ CsvThrew
    \/ BinReturned
    \/ BinThrew
    \/ \E fromPdf \in PdfFragmentMenu : PdfDecoded(fromPdf)
    \/ PdfReturned
    \/ PdfThrew
    \/ OtherDoc
    \/ OtherReturned
    \/ OtherThrew
    \/ AdapterStep
    \/ CleanAndNormalize

SpecFiles == FilesInit /\ [][FilesNext]_vars

----------------------------------------------------------------------------
(* The operations of the server that can reach the external service: a      *)
(* batch through extractFromFiles, GET /health, aiEcho                      *)

OpsInit == FilesInit \/ HealthInit \/ EchoInit

OpsNext == FilesNext \/ HealthNext \/ EchoNext

SpecOps == OpsInit /\ [][OpsNext]_vars

----------------------------------------------------------------------------
(* shouldEnhanceWithAI on its own *)

MaxProducts == 3

nTax == <<"t", "a", "x">>

\* 41 characters with a comma and no keyword
nAddress == [i \in 1..41 |-> IF i = 21 THEN "," ELSE "a"]

\* 41 characters with a comma and a keyword
nTaxAddress == nTax \o [i \in 1..38 |-> IF i = 21 THEN "," ELSE "a"]

EnhanceProductMenu ==
    {RawProduct(n, up, 18, 0, 1) : n \in {nBag, nB, nTax, nAddress, nTaxAddress},
                                   up \in {0, 1000}}

EnhanceInvoicesMenu ==
    {<<>>}
    \cup {<<[RawInvoice("S7", nB, its, 0, 1180) EXCEPT !.date = d]>> :
            its \in {<<>>, <<ItemBag>>}, d \in {"", "2024-01-05"}}

EnhanceInputs ==
    {[products |-> ps, customers |-> <<>>, invoices |-> invs] :
        ps \in UNION {[1..n -> EnhanceProductMenu] : n \in 0..MaxProducts},
        invs \in EnhanceInvoicesMenu}

\* the state outside the function called on its own
FunctionHarness(name) ==
    /\ RequestIdleButInput
    /\ pc = name
    /\ env = DefaultEnv
    /\ AdapterIdle
    /\ output = NotReturned

EnhanceInit ==
    /\ FunctionHarness("shouldEnhanceWithAI")
    /\ input \in EnhanceInputs

\* one call of a function f on the input: FnCall("f", f(input))
FnCall(name, value) ==
    /\ pc = name
    /\ ~output.returned
    /\ output' = Returned(value)
    /\ UNCHANGED <<reqVars, env, adapterVars, input, clientVars>>

CallShouldEnhance == FnCall("shouldEnhanceWithAI", shouldEnhanceWithAI(input))

SpecEnhance == EnhanceInit /\ [][CallShouldEnhance]_vars

----------------------------------------------------------------------------
(* The column picks on their own *)

MaxHeaders == 2

HeaderMenu ==
    {<<"I", "n", "v", "o", "i", "c", "e", " ", "N", "o">>,
     <<"C", "u", "s", "t", "o", "m", "e", "r">>,
     <<"P", "h", "o", "n", "e">>, <<"I", "t", "e", "m">>,
     <<"Q", "t", "y">>, <<"A", "m", "o", "u", "n", "t">>,
     <<"T", "a", "x">>, <<"T", "o", "t", "a", "l">>,
     <<"I", "n", "v", "o", "i", "c", "e", " ", "D", "a", "t", "e">>,
     <<"U", "n", "i", "t", "s">>}

\* header rows: distinct headers, as the keys of an object are
HeaderRows ==
    {hs \in UNION {[1..n -> HeaderMenu] : n \in 0..MaxHeaders} :
        \A i, j \in 1..Len(hs) : i # j => hs[i] # hs[j]}

PickInit ==
    /\ FunctionHarness("pick")
    /\ input \in HeaderRows

CallPickColumns == FnCall("pick", PickColumns(input))

SpecPick == PickInit /\ [][CallPickColumns]_vars

----------------------------------------------------------------------------
(* The tax rescaling on its own *)

\* the largest tax cell, in hundredths (20.00)
MaxTaxCell == 2000

\* numeric tax cells from -20.00 to 20.00 in steps of 0.01
TaxCells == {100 * k : k \in (0 - MaxTaxCell)..MaxTaxCell}

RescaleInit ==
    /\ FunctionHarness("rescaleTax")
    /\ input \in TaxCells

CallRescaleTax == FnCall("rescaleTax", rescaleTax(input))

SpecRescale == RescaleInit /\ [][CallRescaleTax]_vars

----------------------------------------------------------------------------
(* extractFromExcelBuffer: the rows                                         *)
(*                                                                          *)
(* A sheet is what sheet_to_json made of the first worksheet: the header    *)
(* row and the rows, each row the sequence of its cells in header order.    *)
(* A product or customer cell is a sequence of characters; a quantity is a  *)
(* number, a price or total a number of hundredths, a tax cell a number of  *)
(* ten-thousandths; serial, phone and date cells are strings without        *)
(* surrounding spaces.  The raw entities carry the tax rate in percent.     *)

columnOf(header, key) == CHOOSE i \in 1..Len(header) : header[i] = key

\* String(key ? r[key] : '').trim() of a cell of characters
textCell(header, r, key) ==
    IF key = NoColumn THEN <<>> ELSE trim(r[columnOf(header, key)])

\* String(key ? r[key] : '').trim() of a serial, phone or date cell
stringCell(header, r, key) ==
    IF key = NoColumn THEN "" ELSE r[columnOf(header, key)]

\* Number(key ? r[key] : 0) || 0
numberCell(header, r, key) ==
    IF key = NoColumn THEN 0 ELSE r[columnOf(header, key)]

\* the fields lines 197-208 read from one row
rowFields(header, k, r) ==
    [name         |-> textCell(header, r, k.productKey),
     cust         |-> textCell(header, r, k.custKey),
     phone        |-> stringCell(header, r, k.phoneKey),
     unitPrice    |-> numberCell(header, r, k.priceKey),
     qty          |-> numberCell(header, r, k.qtyKey),
     taxRate      |-> rescaleTax(numberCell(header, r, k.taxKey)) \div 100,
     totalFromRow |-> numberCell(header, r, k.totalKey),
     date         |-> stringCell(header, r, k.dateKey),
     serial       |-> stringCell(header, r, k.serialKey)]

\* const hasAny = name || cust || unitPrice || qty || totalFromRow
hasAny(f) ==
    f.name # <<>> \/ f.cust # <<>> \/ f.unitPrice # 0 \/ f.qty # 0 \/ f.totalFromRow # 0

\* lines 213-228: what one row that looks like data appends
rowFragment(f) ==
    [products  |-> IF f.name # <<>>
                   THEN <<RawProduct(f.name, f.unitPrice, f.taxRate,
                                     f.unitPrice + Pct(f.unitPrice, f.taxRate), f.qty)>>
                   ELSE <<>>,
     customers |-> IF f.cust # <<>>
                   THEN <<RawCustomer(f.cust, f.phone, f.totalFromRow)>>
                   ELSE <<>>,
     invoices  |-> <<[serialNumber |-> f.serial,
                      customerName |-> f.cust,
                      date         |-> f.date,
                      items        |-> IF f.name # <<>>
                                       THEN <<RawItem(f.name, NoId, f.qty, f.unitPrice,
                                                      f.taxRate)>>
                                       ELSE <<>>,
                      tax          |-> Pct(f.unitPrice * f.qty, f.taxRate),
                      totalAmount  |-> IF f.totalFromRow # 0 THEN f.totalFromRow
                                       ELSE f.unitPrice * f.qty
                                            + Pct(f.unitPrice * f.qty, f.taxRate)]>>]

\* for (const r of rows)
RECURSIVE rowsLoop(_, _, _, _)
rowsLoop(header, k, rows, acc) ==
    IF rows = <<>> THEN acc
    ELSE LET f == rowFields(header, k, Head(rows))
         IN rowsLoop(header, k, Tail(rows),
                     IF hasAny(f) THEN merge(acc, rowFragment(f)) ELSE acc)

\* extractFromExcelBuffer after sheet_to_json
extractFromExcelRows(sheet) ==
    IF sheet.rows = <<>> THEN EmptyFragment
    ELSE rowsLoop(sheet.header, PickColumns(sheet.header), sheet.rows, EmptyFragment)

----------------------------------------------------------------------------
(* A spreadsheet through the column mapper, cleanResults and normalize *)

MaxRows == 2

StdHeader ==
    <<<<"C", "u", "s", "t", "o", "m", "e", "r">>,
      <<"I", "t", "e", "m">>,
      <<"Q", "t", "y">>,
      <<"P", "r", "i", "c", "e">>,
      <<"T", "a", "x">>,
      <<"T", "o", "t", "a", "l">>>>

\* rows under StdHeader
RowMenu ==
    {<<cust, item, 1, 1000, 18 * TaxOne, total>> :
        cust \in {nA, nUpA, nB, nEmpty},
        item \in {nBag, nEmpty},
        total \in {0, 5000, 0 - 5000}}

Sheets ==
    {[header |-> StdHeader, rows |-> rs] :
        rs \in UNION {[1..n -> RowMenu] : n \in 0..MaxRows}}

SheetInit ==
    /\ FunctionHarness("sheet")
    /\ input \in Sheets

\* the sheet branch of extractFromFiles without the external service, then
\* cleanResults and normalize
CallSheetPipeline ==
    FnCall("sheet", normalize(cleanResults(merge(EmptyFragment, extractFromExcelRows(input)))))

SpecSheet == SheetInit /\ [][CallSheetPipeline]_vars

----------------------------------------------------------------------------
(* extractFromPdfBuffer                                                     *)
(*                                                                          *)
(* A document is what pdfParse makes of it: it raises, or resolves with a   *)
(* text.  The text is its lines, a line the sequence of its words (parts    *)
(* set apart by wide gaps), a word a string of PdfWords.  A name is the     *)
(* sequence of the words it spans.  No word of PdfWords is a phone number,  *)
(* an invoice number, a date, a percentage or a leading item number, so the *)
(* phone, the serial number and the date stay '' and the tax rate 0, and    *)
(* the numbered-items strategy finds nothing.                               *)

\* Number(w.replace(/[^0-9.]/g, '')) in hundredths; 0 for a word without digits
PdfNumber(w) ==
    CASE w = "1" -> 100
      [] w = "10.00" -> 1000
      [] w = "25.00" -> 2500
      [] OTHER -> 0

\* /^(bill\s*to|...)[:\s]/i
IsCustomerLabel(line) == line # <<>> /\ line[1] = "Bill To:"

\* /^(gstin|gst\s*in|phone|ph\:|email|place\s*of\s*supply)/i
IsMetaLabel(line) == line # <<>> /\ line[1] = "GSTIN"

\* /^(subtotal|tax|total|amount\s*due|...|grand|final)/i
IsSummaryWord(w) == w \in {"Total", "Grand Total:"}

\* text.split(/\n+/).map(s => s.trim()).filter(Boolean)
pdfLines(pdfText) == SelectSeq(pdfText, LAMBDA l : l # <<>>)

\* the customer block: the text after the label, or the first of the three
\* following lines that is no meta label
pdfCustomerName(lines) ==
    IF \E i \in 1..Len(lines) : IsCustomerLabel(lines[i])
    THEN LET i == CHOOSE k \in 1..Len(lines) :
                     IsCustomerLabel(lines[k]) /\ \A h \in 1..(k - 1) : ~IsCustomerLabel(lines[h])
             ahead == {k \in 1..3 : i + k <= Len(lines) /\ ~IsMetaLabel(lines[i + k])}
         IN IF Len(lines[i]) > 1 THEN Tail(lines[i])
            ELSE IF ahead = {} THEN <<>>
            ELSE lines[i + (CHOOSE k \in ahead : \A h \in ahead : k <= h)]
    ELSE <<>>

\* the grand total: the first line that carries one
pdfTotalAmount(lines) ==
    LET hits == {i \in 1..Len(lines) :
                    Len(lines[i]) >= 2 /\ lines[i][1] = "Grand Total:"
                        /\ PdfNumber(lines[i][2]) > 0}
    IN IF hits = {} THEN 0
       ELSE PdfNumber(lines[CHOOSE i \in hits : \A h \in hits : i <= h][2])

\* lines.findIndex of the table header; 0 for none
pdfHeaderIdx(lines) ==
    LET hits == {i \in 1..Len(lines) :
                    \E a, b, c \in 1..Len(lines[i]) :
                        lines[i][a] = "Item" /\ lines[i][b] = "Qty" /\ lines[i][c] = "Rate"}
    IN IF hits = {} THEN 0 ELSE CHOOSE i \in hits : \A h \in hits : i <= h

\* one table row of at least three parts: the item it gives, if any
pdfRowItem(parts) ==
    LET qtys == {j \in 2..Len(parts) : PdfNumber(parts[j]) > 0 /\ PdfNumber(parts[j]) < 1000000}
        qty == IF qtys = {} THEN 0
               ELSE PdfNumber(parts[CHOOSE j \in qtys : \A h \in qtys : j <= h]) \div 100
        from == IF Len(parts) > 3 THEN Len(parts) - 2 ELSE 1
        tail == {j \in from..Len(parts) : PdfNumber(parts[j]) > 0}
        unitPrice == IF tail = {} THEN 0
                     ELSE PdfNumber(parts[CHOOSE j \in tail : \A h \in tail : j <= h])
    IN IF (qty # 0 \/ unitPrice # 0) /\ ~IsSummaryWord(parts[1])
       THEN <<RawItem(<<parts[1]>>, NoId, IF qty # 0 THEN qty ELSE 1, unitPrice, 0)>>
       ELSE <<>>

\* strategy 1: the rows after the header, up to the first summary line
RECURSIVE pdfTableRows(_, _, _)
pdfTableRows(lines, i, items) ==
    IF i > Len(lines) THEN items
    ELSE IF Len(lines[i]) < 3 THEN pdfTableRows(lines, i + 1, items)
    ELSE IF IsSummaryWord(lines[i][1]) THEN items \o pdfRowItem(lines[i])
    ELSE pdfTableRows(lines, i + 1, items \o pdfRowItem(lines[i]))

\* /^(invoice|bill|tax|total|...)/i of strategy 3
IsSkippedLine(line) == line[1] \in {"Bill To:", "Total", "GSTIN"}

\* strategy 3: a name followed by an amount
RECURSIVE pdfLooseItems(_, _)
pdfLooseItems(lines, items) ==
    IF lines = <<>> THEN items
    ELSE LET l == Head(lines) IN
         IF ~IsSkippedLine(l) /\ Len(l) = 2 /\ PdfNumber(l[1]) = 0 /\ PdfNumber(l[2]) > 0
         THEN pdfLooseItems(Tail(lines),
                            Append(items, RawItem(<<l[1]>>, NoId, 1, PdfNumber(l[2]), 0)))
         ELSE pdfLooseItems(Tail(lines), items)

pdfItems(lines) ==
    LET table == IF pdfHeaderIdx(lines) > 0
                 THEN pdfTableRows(lines, pdfHeaderIdx(lines) + 1, <<>>)
                 ELSE <<>>
    IN IF table # <<>> THEN table ELSE pdfLooseItems(lines, <<>>)

\* one invoice per item instead of one invoice
pdfInvoices_OnePerItem(customerName, items, totalAmount) ==
    [i \in 1..Len(items) |->
        [serialNumber |-> "", customerName |-> customerName, date |-> "",
         items |-> <<items[i]>>, tax |-> 0, totalAmount |-> totalAmount]]

\* const invoices = [{ serialNumber, customerName, date, items, tax: 0, totalAmount }]
pdfInvoices(customerName, items, totalAmount) ==
    <<[serialNumber |-> "", customerName |-> customerName, date |-> "",
       items |-> items, tax |-> 0, totalAmount |-> totalAmount]>>

\* the try body after pdfParse resolved with a text
pdfFromText(pdfText) ==
    LET lines == pdfLines(pdfText)
        customerName == pdfCustomerName(lines)
        totalAmount == pdfTotalAmount(lines)
        items == pdfItems(lines)
        products == [i \in 1..Len(items) |->
                        RawProduct(items[i].productName, items[i].unitPrice, items[i].taxRate,
                                   items[i].unitPrice + Pct(items[i].unitPrice, items[i].taxRate),
                                   items[i].qty)]
        customers == IF customerName # <<>>
                     THEN <<RawCustomer(customerName, "", totalAmount)>>
                     ELSE <<>>
        hasData == Len(products) > 0 \/ Len(customers) > 0 \/ Len(items) > 0 \/ totalAmount # 0
    IN IF lines = <<>> THEN EmptyFragment
       ELSE IF ~hasData THEN EmptyFragment
       ELSE [products |-> products, customers |-> customers,
             invoices |-> pdfInvoices(customerName, items, totalAmount)]

\* extractFromPdfBuffer: the catch returns the empty fragment
extractFromPdfBuffer(doc) ==
    IF doc.raises THEN EmptyFragment ELSE pdfFromText(doc.text)

MaxLines == 3

PdfLineMenu ==
    { <<"Bill To:", "b">>, <<"Bill To:">>, <<"b">>, <<"GSTIN">>,
      <<"Grand Total:", "25.00">>, <<"Item", "Qty", "Rate">>,
      <<"bag", "1", "10.00">>, <<"Total", "1", "10.00">>, <<>> }

PdfDocs ==
    {[raises |-> TRUE, text |-> <<>>]}
        \cup {[raises |-> FALSE, text |-> t] :
                 t \in UNION {[1..n -> PdfLineMenu] : n \in 0..MaxLines}}

PdfInit ==
    /\ FunctionHarness("extractFromPdfBuffer")
    /\ input \in PdfDocs

CallExtractFromPdfBuffer == FnCall("extractFromPdfBuffer", extractFromPdfBuffer(input))

SpecPdf == PdfInit /\ [][CallExtractFromPdfBuffer]_vars

----------------------------------------------------------------------------
(* The client store (client/src/store): the products, customers and        *)
(* invoices slices.  An entity is a record over the fields that are        *)
(* defined: an undefined field is absent from its domain, and the          *)
(* undefined object is the record over no field.  Ids are ordinary keys,   *)
(* none the name of a member of Object.prototype.                          *)

Undefined == <<>>

\* obj?.f is neither null nor undefined
Defined(obj, f) == f \in DOMAIN obj

\* input.f ?? existing?.f ?? d
Nullish(inp, existing, f, d) ==
    IF Defined(inp, f) THEN inp[f]
    ELSE IF Defined(existing, f) THEN existing[f]
    ELSE d

\* f: input.f ?? existing?.f, a field left undefined when both are
Optional(inp, existing, f) ==
    IF Defined(inp, f) THEN f :> inp[f]
    ELSE IF Defined(existing, f) THEN f :> existing[f]
    ELSE Undefined

\* Math.random().toString(36).slice(2, 10): one of the ids genId can draw
MaxRandom == 1

genIds(prefix) == {<<prefix, "rnd", k>> : k \in 1..MaxRandom}

\* (input as any).id || genId(prefix), rid the id genId draws
idOf(inp, rid) ==
    IF Defined(inp, "id") /\ inp.id # NoId THEN inp.id ELSE rid

\* state.byId[id]
existingOf(state, id) ==
    IF id \in DOMAIN state.byId THEN state.byId[id] ELSE Undefined

\* the store written with the id pushed whether or not it was known
put_AlwaysPush(state, id, entity) ==
    [byId   |-> [k \in DOMAIN state.byId \cup {id} |->
                    IF k = id THEN entity ELSE state.byId[k]],
     allIds |-> Append(state.allIds, id)]

\* state.byId[id] = entity; if (!existing) state.allIds.push(id)
put(state, id, entity) ==
    [byId   |-> [k \in DOMAIN state.byId \cup {id} |->
                    IF k = id THEN entity ELSE state.byId[k]],
     allIds |-> IF id \in DOMAIN state.byId THEN state.allIds
                ELSE Append(state.allIds, id)]

\* safeNumber(n) of a finite number n (every number of the store is finite)
safeNumber(n) == n

\* the Product built by productsSlice.upsertMany
productOf(id, inp, existing) ==
    LET unitPrice == Nullish(inp, existing, "unitPrice", 0)
        taxRate   == Nullish(inp, existing, "taxRate", 0)
    IN [id |-> id,
        name |-> Nullish(inp, existing, "name", <<>>),
        unitPrice |-> unitPrice,
        taxRate |-> taxRate,
        priceWithTax |-> Nullish(inp, existing, "priceWithTax",
                                 unitPrice + Pct(unitPrice, taxRate))]
       @@ Optional(inp, existing, "quantity")
       @@ Optional(inp, existing, "discount")

\* the Customer built by customersSlice.upsertMany
customerOf(id, inp, existing) ==
    [id |-> id,
     name |-> Nullish(inp, existing, "name", <<>>),
     totalPurchase |-> Nullish(inp, existing, "totalPurchase", 0)]
    @@ Optional(inp, existing, "phone")

\* inv.items.reduce((s, it) => s + safeNumber(it.unitPrice) * safeNumber(it.qty), 0)
RECURSIVE itemsSubtotal(_)
itemsSubtotal(items) ==
    IF items = <<>> THEN 0
    ELSE safeNumber(Head(items).unitPrice) * safeNumber(Head(items).qty)
            + itemsSubtotal(Tail(items))

\* inv.items.reduce((s, it) => s + unitPrice * qty * taxRate, 0)
RECURSIVE itemsTax(_)
itemsTax(items) ==
    IF items = <<>> THEN 0
    ELSE Pct(safeNumber(Head(items).unitPrice) * safeNumber(Head(items).qty),
             safeNumber(Head(items).taxRate))
            + itemsTax(Tail(items))

\* compute: { ...inv, tax: inv.tax ?? tax, totalAmount: inv.totalAmount ?? total }
compute(inv) ==
    LET subtotal == itemsSubtotal(inv.items)
        tax      == itemsTax(inv.items)
        total    == subtotal + tax
    IN ("tax" :> safeNumber(IF Defined(inv, "tax") THEN inv.tax ELSE tax))
       @@ ("totalAmount" :>
              safeNumber(IF Defined(inv, "totalAmount") THEN inv.totalAmount ELSE total))
       @@ inv

\* the Invoice built by invoicesSlice.upsertMany
invoiceOf(id, inp, existing) ==
    compute([id |-> id,
             serialNumber |-> Nullish(inp, existing, "serialNumber", ""),
             customerId |-> Nullish(inp, existing, "customerId", NoId),
             items |-> Nullish(inp, existing, "items", <<>>)]
            @@ Optional(inp, existing, "date")
            @@ Optional(inp, existing, "totalAmount")
            @@ Optional(inp, existing, "tax"))

entityOf(slice, id, inp, existing) ==
    CASE slice = "products"  -> productOf(id, inp, existing)
      [] slice = "customers" -> customerOf(id, inp, existing)
      [] slice = "invoices"  -> invoiceOf(id, inp, existing)

\* upsertMany of a slice: for (const input of action.payload) { ... }
RECURSIVE upsertMany(_, _, _, _)
upsertMany(slice, state, payload, rnd) ==
    IF payload = <<>> THEN state
    ELSE LET inp      == Head(payload)
             id       == idOf(inp, Head(rnd))
             existing == existingOf(state, id)
         IN upsertMany(slice, put(state, id, entityOf(slice, id, inp, existing)),
                       Tail(payload), Tail(rnd))

\* the object update stores for an existing entity
patched(slice, existing, patch) ==
    CASE slice = "products"  ->
            ("priceWithTax" :>
                LET unitPrice == Nullish(patch, existing, "unitPrice", 0)
                    taxRate   == Nullish(patch, existing, "taxRate", 0)
                IN unitPrice + Pct(unitPrice, taxRate))
            @@ patch @@ existing
      [] slice = "customers" -> patch @@ existing
      [] slice = "invoices"  -> compute(patch @@ existing)

\* update of a slice: if (!existing) return; state.byId[id] = ...
update(slice, state, id, patch) ==
    IF id \notin DOMAIN state.byId THEN state
    ELSE [state EXCEPT !.byId[id] = patched(slice, @, patch)]

\* invoicesSlice.linkCustomer: if (!inv) return; inv.customerId = customerId
linkCustomer(state, id, customerId) ==
    IF id \notin DOMAIN state.byId THEN state
    ELSE [state EXCEPT !.byId[id] = ("customerId" :> customerId) @@ @]

(* The actions dispatched to a slice on its own: input holds the type, the *)
(* id and the patch of the last one                                       *)

Dispatched(type, id, patch) == [type |-> type, id |-> id, patch |-> patch]

NoAction == Dispatched("@@INIT", NoId, Undefined)

MaxPayload == 2

iProd1 == <<"prod", 1>>
iProd2 == <<"prod", 2>>
iCust1 == <<"cust", 1>>
iCust2 == <<"cust", 2>>
iInv1  == <<"inv", 1>>

StoreItem(pid, q, up, tr) == [productId |-> pid, qty |-> q, unitPrice |-> up, taxRate |-> tr]

StoreItemA == StoreItem(iProd1, 2, 1000, 10)
StoreItemB == StoreItem(iProd2, 1, 500, 18)

Inputs(slice) ==
    CASE slice = "products"  ->
            { [id |-> iProd1, name |-> nA, unitPrice |-> 1000, taxRate |-> 10],
              [id |-> iProd1, name |-> nB],
              [unitPrice |-> 500, quantity |-> 2] }
      [] slice = "customers" ->
            { [id |-> iCust1, name |-> nA, phone |-> "555", totalPurchase |-> 7000],
              [id |-> iCust1, name |-> nB],
              [phone |-> "777"] }
      [] slice = "invoices"  ->
            { [id |-> iInv1, serialNumber |-> "S1", customerId |-> iCust1,
               items |-> <<StoreItemA>>],
              [id |-> iInv1, items |-> <<StoreItemB>>, tax |-> 50, totalAmount |-> 5000],
              [date |-> "2024-01-05"] }

Patches(slice) ==
    CASE slice = "products"  -> { [unitPrice |-> 2000], [taxRate |-> 18] }
      [] slice = "customers" -> { [phone |-> "777"], [id |-> iCust2, name |-> nB] }
      [] slice = "invoices"  ->
            { [items |-> <<StoreItemB>>],
              [items |-> <<StoreItemA, StoreItemB>>, tax |-> 0] }

Payloads(slice) == UNION {[1..n -> Inputs(slice)] : n \in 0..MaxPayload}

\* the ids a slice is addressed by: the ids of the inputs, the ids genId
\* draws, and one id no payload carries
Ids(slice) ==
    {i.id : i \in {j \in Inputs(slice) : Defined(j, "id")}}
        \cup genIds(slice) \cup {<<slice, 0>>}

StoreInit ==
    /\ RequestIdleButInput
    /\ pc \in {"products", "customers", "invoices"}
    /\ env = DefaultEnv
    /\ AdapterIdle
    /\ input = NoAction
    /\ output = NotReturned

StoreUnchanged == UNCHANGED <<reqVars, env, adapterVars, output>>

UpsertMany(slice) ==
    /\ pc = slice
    /\ \E payload \in Payloads(slice), rnd \in [1..MaxPayload -> genIds(slice)] :
          /\ input' = Dispatched("upsertMany", NoId, Undefined)
          /\ store' = [store EXCEPT ![slice] = upsertMany(slice, @, payload, rnd)]
    /\ StoreUnchanged

Update(slice) ==
    /\ pc = slice
    /\ \E id \in Ids(slice), patch \in Patches(slice) :
          /\ input' = Dispatched("update", id, patch)
          /\ store' = [store EXCEPT ![slice] = update(slice, @, id, patch)]
    /\ StoreUnchanged

ProductsUpsertMany == UpsertMany("products")

ProductsUpdate == Update("products")

CustomersUpsertMany == UpsertMany("customers")

CustomersUpdate == Update("customers")

InvoicesUpsertMany == UpsertMany("invoices")

InvoicesUpdate == Update("invoices")

InvoicesLinkCustomer ==
    /\ pc = "invoices"
    /\ \E id \in Ids("invoices"), customerId \in {iCust1, iCust2} :
          /\ input' = Dispatched("linkCustomer", id, [customerId |-> customerId])
          /\ store' = [store EXCEPT !.invoices = linkCustomer(@, id, customerId)]
    /\ StoreUnchanged

StoreNext ==
    \/ ProductsUpsertMany
    \/ ProductsUpdate
    \/ CustomersUpsertMany
    \/ CustomersUpdate
    \/ InvoicesUpsertMany
    \/ InvoicesUpdate
    \/ InvoicesLinkCustomer

SpecStore == StoreInit /\ [][StoreNext]_vars

----------------------------------------------------------------------------
(* The upload panel (client/src/components/UploadPanel.tsx): the responses *)
(* of the extraction route upserted into the store; sent holds the        *)
(* responses received so far                                              *)

\* res.data of a product: JSON.stringify leaves an undefined field out
responseProduct(p) ==
    [id |-> p.id, name |-> p.name, unitPrice |-> p.unitPrice, taxRate |-> p.taxRate,
     priceWithTax |-> p.priceWithTax]
    @@ (IF p.quantity # 0 THEN "quantity" :> p.quantity ELSE Undefined)
    @@ (IF p.discount # 0 THEN "discount" :> p.discount ELSE Undefined)

\* res.data: products, customers and invoices as the route serialised them
responseOf(data) ==
    [products  |-> [i \in 1..Len(data.products) |-> responseProduct(data.products[i])],
     customers |-> data.customers,
     invoices  |-> data.invoices]

MaxResponses == 2

ResponseMenu ==
    {responseOf(normalize(cleanResults(f))) :
        f \in FragmentMenu \cup {SheetFragment, PdfGood}}

\* if (list.length) dispatch(upsertMany(list))
dispatchUpsert(slice, state, list, rnd) ==
    IF Len(list) > 0 THEN upsertMany(slice, state, list, rnd) ELSE state

\* onFiles after the response arrived: the three lists upserted as received
onFiles(st, data, rnd) ==
    [products  |-> dispatchUpsert("products", st.products, data.products, rnd.products),
     customers |-> dispatchUpsert("customers", st.customers, data.customers, rnd.customers),
     invoices  |-> dispatchUpsert("invoices", st.invoices, data.invoices, rnd.invoices)]

UploadInit ==
    /\ RequestIdle
    /\ pc = "upload"
    /\ env = DefaultEnv
    /\ AdapterIdle

UploadResponse ==
    /\ pc = "upload"
    /\ Len(sent) < MaxResponses
    /\ \E data \in ResponseMenu,
          rnd \in [products  : [1..MaxSeeds + MaxInvoices -> genIds("products")],
                   customers : [1..MaxSeeds + MaxInvoices -> genIds("customers")],
                   invoices  : [1..MaxInvoices -> genIds("invoices")]] :
          /\ sent' = Append(sent, data)
          /\ store' = onFiles(store, data, rnd)
    /\ UNCHANGED <<files, fi, merged, cleaned, normalized, pc, env, adapterVars, fnVars>>

SpecUpload == UploadInit /\ [][UploadResponse]_vars

----------------------------------------------------------------------------
(* Properties of normalize *)

Done == pc = "done"

RECURSIVE SumFn(_, _)
SumFn(f, n) == IF n = 0 THEN 0 ELSE f[n] + SumFn(f, n - 1)

Range(s) == {s[i] : i \in 1..Len(s)}

IdentityKey(name) == trim(toLowerCase(name))

\* the names the cleaned fragment asks normalize to resolve: those of its
\* products and of its items that carry no productId of their own
ProductNamesSeen ==
    {p.name : p \in Range(cleaned.products)}
    \cup UNION {{it.productName : it \in {x \in Range(v.items) : x.productId = NoId}} :
                   v \in Range(cleaned.invoices)}

CustomerNamesSeen ==
    {c.name : c \in Range(cleaned.customers)}
    \cup {v.customerName : v \in Range(cleaned.invoices)}

DistinctKeys(names) == {IdentityKey(n) : n \in names} \ {<<>>}

NoSharedKey(entities) ==
    \A i, j \in 1..Len(entities) :
        i # j => IdentityKey(entities[i].name) # IdentityKey(entities[j].name)

\* C1: after normalize no two output Products and no two output Customers
\* have names equal after trimming and lowercasing, and each collection has
\* as many entities as the fragment has distinct trimmed lowercased non-empty
\* names.
C1_DedupTrimmedLowercased ==
    Done =>
        /\ NoSharedKey(normalized.products)
        /\ NoSharedKey(normalized.customers)
        /\ Len(normalized.products) = Cardinality(DistinctKeys(ProductNamesSeen))
        /\ Len(normalized.customers) = Cardinality(DistinctKeys(CustomerNamesSeen))

ProductIds == {p.id : p \in Range(normalized.products)}

CustomerIds == {c.id : c \in Range(normalized.customers)}

\* C2: every productId of every output invoice item and every non-empty
\* customerId of every output invoice is the id of an entity of the output
\* products, respectively customers.
C2_ReferentialIntegrity ==
    Done =>
        \A v \in Range(normalized.invoices) :
            /\ \A it \in Range(v.items) : it.productId \in ProductIds
            /\ v.customerId # NoId => v.customerId \in CustomerIds

Referencing(c) == {i \in 1..Len(normalized.invoices) : normalized.invoices[i].customerId = c.id}

\* the sum of totalAmount over the invoices that reference customer c
ReferencedTotal(c) ==
    SumFn([i \in 1..Len(normalized.invoices) |->
              IF i \in Referencing(c) THEN normalized.invoices[i].totalAmount ELSE 0],
          Len(normalized.invoices))

\* the totalPurchase the fragment supplied for customer c: that of the first
\* fragment-level customer with its key, 0 for a customer first seen on an invoice
SuppliedTotalPurchase(c) ==
    LET hits == {k \in 1..Len(cleaned.customers) :
                    toLowerCase(cleaned.customers[k].name) = toLowerCase(c.name)}
    IN IF hits = {} THEN 0
       ELSE cleaned.customers[CHOOSE k \in hits : \A h \in hits : k <= h].totalPurchase

\* C3 as stated: every output Customer referenced by at least one output
\* invoice has totalPurchase equal to the sum of totalAmount over exactly the
\* invoices that reference it.
C3_SumWheneverReferenced ==
    Done =>
        \A c \in Range(normalized.customers) :
            Referencing(c) # {} => c.totalPurchase = ReferencedTotal(c)

\* C3 amended: every output Customer whose referencing invoices sum to a
\* non-zero totalAmount has totalPurchase equal to that sum; when the sum is
\* zero (no referencing invoice, or referencing invoices that total zero) it
\* keeps the supplied totalPurchase.
C3_SumUnlessZero ==
    Done =>
        \A c \in Range(normalized.customers) :
            c.totalPurchase =
                IF ReferencedTotal(c) # 0 THEN ReferencedTotal(c)
                ELSE SuppliedTotalPurchase(c)

\* a customer with two referencing invoices and a non-zero sum, and a
\* customer whose only referencing invoice totals zero
C3_Witness ==
    /\ Done
    /\ \E c \in Range(normalized.customers) :
          Cardinality(Referencing(c)) = 2 /\ ReferencedTotal(c) # 0
             /\ SuppliedTotalPurchase(c) # 0
             /\ \A i \in Referencing(c) : normalized.invoices[i].totalAmount # 0

\* the sums over the cleaned items of source invoice i
ItemsSubtotal(i) ==
    LET its == cleaned.invoices[i].items IN
    SumFn([k \in 1..Len(its) |-> its[k].unitPrice * its[k].qty], Len(its))

ItemsTax(i) ==
    LET its == cleaned.invoices[i].items IN
    SumFn([k \in 1..Len(its) |-> (its[k].unitPrice * its[k].qty * its[k].taxRate) \div 100],
          Len(its))

\* C4: the output tax is the supplied tax when the source invoice supplied a
\* non-zero tax with its total, and the sum of unitPrice*qty*taxRate over the
\* items otherwise.
C4_SuppliedTaxWins ==
    Done =>
        \A i \in 1..Len(normalized.invoices) :
            normalized.invoices[i].tax =
                IF cleaned.invoices[i].tax # 0 /\ cleaned.invoices[i].totalAmount # 0
                THEN cleaned.invoices[i].tax
                ELSE ItemsTax(i)

\* C5: totalAmount is the supplied totalAmount when that is non-zero, and
\* subtotal + tax over the cleaned items otherwise.
C5_TotalAmount ==
    Done =>
        /\ Len(normalized.invoices) = Len(cleaned.invoices)
        /\ \A i \in 1..Len(normalized.invoices) :
              normalized.invoices[i].totalAmount =
                  IF cleaned.invoices[i].totalAmount # 0
                  THEN cleaned.invoices[i].totalAmount
                  ELSE ItemsSubtotal(i) + ItemsTax(i)

\* one invoice whose total is computed from two taxed and untaxed items next
\* to one whose supplied total differs from its computed total
C5_Witness ==
    /\ Done
    /\ \E i, j \in 1..Len(normalized.invoices) :
          /\ cleaned.invoices[i].totalAmount = 0
          /\ Len(cleaned.invoices[i].items) = 2
          /\ ItemsTax(i) > 0
          /\ normalized.invoices[i].totalAmount = ItemsSubtotal(i) + ItemsTax(i)
          /\ cleaned.invoices[j].totalAmount # 0
          /\ cleaned.invoices[j].totalAmount # ItemsSubtotal(j) + ItemsTax(j)
          /\ Len(merged.invoices[j].items) > Len(cleaned.invoices[j].items)

----------------------------------------------------------------------------
(* Properties of the adapters *)

\* the message the catch of the candidate loop sees for a failed answer
FailureMessage(o) ==
    IF o.kind = "transport" THEN FetchFailedMessage
    ELSE IF ~ResOk(o) THEN HttpErrorMessage(o)
    ELSE SyntaxErrorMessage

\* the answer is a failure of the call: no response, an error status, or a
\* success status whose body is not JSON
IsFailure(o) ==
    \/ o.kind = "transport"
    \/ o.kind = "http" /\ ~ResOk(o)
    \/ o.kind = "http" /\ ResOk(o) /\ o.json.kind = "unparsable"

\* the answer is a generateContent response object
Succeeded(o) == o.kind = "http" /\ ResOk(o) /\ o.json.kind = "envelope"

\* candidate lastCi has failed: the latest answer is a failure and
\* httpGenerateContent is not moving on to its next API version
CandidateFailed == IsFailure(lastOutcome) /\ vi = 1

\* C6: a failure of the "model not found" class on a candidate advances the
\* adapter to the next candidate in list order; a failure of any other class
\* stops the loop and the call returns the empty fragment; whatever the
\* service answers, the adapter never throws to its caller.
C6_AdvanceOrStopNeverThrow ==
    /\ aPc # "thrown"
    /\ (/\ CandidateFailed
        /\ IsNotFoundClass(FailureMessage(lastOutcome))
        /\ lastCi < Len(candidates))
       => (aPc = "fetch" /\ ci = lastCi + 1)
    /\ (CandidateFailed /\ ~IsNotFoundClass(FailureMessage(lastOutcome)))
       => (aPc = "returned" /\ ci = lastCi /\ aResult = EmptyValue)

\* C7 as stated: a transport-level error on a candidate that is not the last
\* one is swallowed and makes the adapter advance to the next candidate.
C7_TransportErrorAdvances ==
    (lastOutcome = TransportError /\ lastCi < Len(candidates))
    => (aPc = "fetch" /\ ci = lastCi + 1)

\* C7, amended: a transport-level error on a candidate is swallowed, stops the
\* candidate loop at that candidate, and the call returns the empty fragment;
\* it is never thrown onward.
C7_TransportErrorStops ==
    lastOutcome = TransportError
    => (aPc = "returned" /\ ci = lastCi /\ aResult = EmptyValue)

C7_Witness ==
    /\ lastOutcome = TransportError
    /\ aPc = "returned"
    /\ lastCi = 2
    /\ lastCi < Len(candidates)

\* C8: when the first k candidates all fail with "not found" and candidate
\* k+1 answers with a response, candidate k+1 is the one that was called after
\* them, the adapter returns what the parse strategies make of that response's
\* text, it calls no candidate after k+1, and it surfaces no error.
C8_FallbackToLaterCandidate ==
    /\ (/\ CandidateFailed
        /\ IsNotFoundClass(FailureMessage(lastOutcome))
        /\ notFound = lastCi
        /\ lastCi < Len(candidates))
       => (aPc = "fetch" /\ ci = lastCi + 1)
    /\ (Succeeded(lastOutcome) /\ notFound = lastCi - 1)
       => /\ aPc \in {"parse", "returned"}
          /\ ci = lastCi
          /\ lastOutcome.json.text # <<>> => text = lastOutcome.json.text
          /\ aPc = "returned" => aResult = ParseResponse(text)

C8_Witness ==
    /\ aPc = "returned"
    /\ Succeeded(lastOutcome)
    /\ lastCi = 4
    /\ notFound = 3
    /\ aResult = Obj(<<"k", "k">>)

----------------------------------------------------------------------------
(* Properties of response parsing *)

\* C10: the adapter returns the result of the first of direct JSON, fenced
\* JSON, first-brace-to-last-brace that parses, the empty fragment when none
\* parses, and no parse failure propagates as an exception.
C10_FirstStrategyThatParses ==
    /\ aPc # "thrown"
    /\ aPc = "returned" =>
        /\ DirectStrategy(text).ok => aResult = DirectStrategy(text).value
        /\ (~DirectStrategy(text).ok /\ FenceStrategy(text).ok)
           => aResult = FenceStrategy(text).value
        /\ (~DirectStrategy(text).ok /\ ~FenceStrategy(text).ok /\ BraceStrategy(text).ok)
           => aResult = BraceStrategy(text).value
        /\ (~DirectStrategy(text).ok /\ ~FenceStrategy(text).ok /\ ~BraceStrategy(text).ok)
           => aResult = EmptyValue

\* a text on which the order of the second and third strategies shows
C10_Witness ==
    /\ aPc = "returned"
    /\ ~DirectStrategy(text).ok
    /\ FenceStrategy(text).ok
    /\ BraceStrategy(text).ok
    /\ FenceStrategy(text).value # BraceStrategy(text).value
    /\ aResult = FenceStrategy(text).value

----------------------------------------------------------------------------
(* Properties of the loop over documents *)

\* C9: whatever fails in one document's pipeline (a decoder raising, the
\* external call failing or returning content that is not a fragment), the
\* request does not end in an error: every document of the batch is processed
\* and a normalized result is returned.
C9_DocumentFailureIsIsolated ==
    /\ pc # "failed"
    /\ pc = "done" => fi = Len(files) + 1

----------------------------------------------------------------------------
(* Termination of an adapter call *)

\* C11: an adapter call only ever moves forward through the (candidate model,
\* API version) pairs: the pair it is about to request lies strictly after the
\* pair it requested last, inside the two lists, so no pair is requested twice
\* and the requests of one call number at most candidates times versions,
\* whatever the service answers.
C11_BoundedForwardRetries ==
    /\ nCalls <= Len(candidates) * Len(versionsToTry)
    /\ aPc = "fetch" =>
        /\ ci \in 1..Len(candidates)
        /\ vi \in 1..Len(versionsToTry)
        /\ nCalls > 0 => (ci > lastCi \/ (ci = lastCi /\ vi > lastVi))
        /\ nCalls <= (ci - 1) * Len(versionsToTry) + (vi - 1)

\* the call is over
AdapterOver == aPc \in {"returned", "thrown"}

\* the service answers every request (a fetch resolves or rejects)
SpecAdapterLive == SpecAdapter /\ WF_vars(AdapterStep)

\* every adapter call comes to an end
C11_Terminates == <>AdapterOver

\* the last pair of the lists has been requested, after a request to every
\* candidate before it
C11_Witness ==
    /\ aPc = "returned"
    /\ lastCi = Len(candidates)
    /\ lastVi = Len(versionsToTry)
    /\ Len(versionsToTry) = 2
    /\ nCalls >= Len(candidates) + 1

----------------------------------------------------------------------------
(* The submit route *)

\* C12: a request with an empty batch is answered 400 with no extraction,
\* cleaning or normalization step run and no entity created; a request with at
\* least one file is never answered 400.
C12_EmptyBatchRejected ==
    /\ (Len(files) = 0 /\ pc # "received") =>
        /\ pc = "rejected"
        /\ fi = 1
        /\ merged = EmptyFragment
        /\ cleaned = EmptyFragment
        /\ normalized = EmptyFragment
        /\ aPc = "idle" /\ nCalls = 0
    /\ Len(files) > 0 => pc # "rejected"

C12_Witness == Len(files) = 0 /\ pc = "rejected"

----------------------------------------------------------------------------
(* Identifiers across requests *)

\* C13: when the same document is submitted in two separate requests, the
\* product ids of the second response differ from those of the first, and so
\* do the customer ids.
C13_DifferentIdsAcrossRequests ==
    (pc = "done" /\ Len(sent) = 1) =>
        /\ ProductIds \cap {p.id : p \in Range(sent[1].products)} = {}
        /\ CustomerIds \cap {c.id : c \in Range(sent[1].customers)} = {}

----------------------------------------------------------------------------
(* Properties of shouldEnhanceWithAI *)

\* the boilerplate classifier of a product name: a keyword, or more than 40
\* characters with a comma
LooksLikeBoilerplate(name) ==
    \/ \E k \in EnhancerKeywords : Includes(toLowerCase(name), k)
    \/ Len(name) > 40 /\ HasComma(name)

\* the four conditions, as stated
EscalateAsStated(frag) ==
    LET ps == frag.products
        invs == frag.invoices
        matching == {i \in 1..Len(ps) : LooksLikeBoilerplate(ps[i].name)}
    IN \/ Len(ps) = 0 /\ \A j \in 1..Len(invs) : Len(invs[j].items) = 0
       \/ Len(ps) > 0 /\ 2 * Cardinality(matching) >= Len(ps)
       \/ Len(ps) > 0 /\ \A i \in 1..Len(ps) : ps[i].unitPrice = 0
       \/ Len(invs) > 0 /\ (invs[1].date = "" \/ Len(invs[1].items) = 0)

\* C14: shouldEnhanceWithAI returns true exactly when the fragment has zero
\* items and zero products, or at least half of its product names match the
\* boilerplate classifier, or all its product unit prices are zero, or its
\* invoice has an empty date or an empty item list.
C14_EscalatesExactlyWhenStated ==
    (pc = "shouldEnhanceWithAI" /\ output.returned)
    => (output.value <=> EscalateAsStated(input))

----------------------------------------------------------------------------
(* Properties of the column picks *)

\* C15: each header is claimed by at most one of the nine roles.
C15_HeaderClaimedByOneRole ==
    (pc = "pick" /\ output.returned) =>
        \A r1, r2 \in DOMAIN RoleKeys :
            (r1 # r2 /\ output.value[r1] # NoColumn)
            => output.value[r1] # output.value[r2]

----------------------------------------------------------------------------
(* Properties of the tax rescaling *)

\* C16: a numeric tax cell v above 1.0 gives the tax rate v/100, and a cell
\* v of at most 1.0 gives the tax rate v.
C16_TaxRescaled ==
    (pc = "rescaleTax" /\ output.returned) =>
        IF input > TaxOne
        THEN 100 * output.value = input
        ELSE output.value = input

\* 18 becomes 0.18
C16_Witness ==
    /\ pc = "rescaleTax"
    /\ output.returned
    /\ input = 18 * TaxOne
    /\ 100 * output.value = 18 * TaxOne

----------------------------------------------------------------------------
(* Properties of the spreadsheet pipeline *)

SheetDone == pc = "sheet" /\ output.returned

\* every row names a customer, and the names differ only in letter case
SameCustomerRows ==
    /\ input.rows # <<>>
    /\ \A i \in 1..Len(input.rows) :
          /\ input.rows[i][1] # <<>>
          /\ toLowerCase(input.rows[i][1]) = toLowerCase(input.rows[1][1])

SheetInvoiceTotal ==
    SumFn([i \in 1..Len(output.value.invoices) |-> output.value.invoices[i].totalAmount],
          Len(output.value.invoices))

\* one output customer, and every row's invoice carries its id
OneCustomerReferencedByAll ==
    /\ Len(output.value.customers) = 1
    /\ Len(output.value.invoices) = Len(input.rows)
    /\ \A v \in Range(output.value.invoices) :
          v.customerId = output.value.customers[1].id

\* C17 as stated: rows whose customer cells differ only in letter case yield
\* exactly one output Customer, every invoice built from the rows references
\* its id, and its totalPurchase equals the sum of those invoices' totalAmount.
C17_OneCustomerSumOfTotals ==
    (SheetDone /\ SameCustomerRows) =>
        /\ OneCustomerReferencedByAll
        /\ output.value.customers[1].totalPurchase = SheetInvoiceTotal

\* C17 amended: such rows yield exactly one output Customer referenced by
\* every invoice built from them; its totalPurchase is the sum of those
\* invoices' totalAmount when that sum is not zero, and the Total cell of the
\* first row when it is.
C17_OneCustomerSumUnlessZero ==
    (SheetDone /\ SameCustomerRows) =>
        /\ OneCustomerReferencedByAll
        /\ output.value.customers[1].totalPurchase =
              IF SheetInvoiceTotal # 0 THEN SheetInvoiceTotal
              ELSE input.rows[1][6]

\* "a" and "A" on two rows of 50.00 each: one customer with 100.00
C17_Witness ==
    /\ SheetDone
    /\ SameCustomerRows
    /\ Len(input.rows) = 2
    /\ input.rows[1][1] # input.rows[2][1]
    /\ Len(output.value.customers) = 1
    /\ output.value.customers[1].totalPurchase = 10000

----------------------------------------------------------------------------
(* priceWithTax *)

\* the priceWithTax the fragment supplied for output product p: that of the
\* first fragment-level product with its key, 0 (none) for a product first
\* seen on an invoice item
SuppliedPriceWithTax(p) ==
    LET hits == {k \in 1..Len(cleaned.products) :
                    toLowerCase(cleaned.products[k].name) = toLowerCase(p.name)}
    IN IF hits = {} THEN 0
       ELSE cleaned.products[CHOOSE k \in hits : \A h \in hits : k <= h].priceWithTax

\* C18: every output Product of normalize whose raw source entry supplied no
\* priceWithTax has priceWithTax = unitPrice * (1 + taxRate), computed from
\* the output Product's own unitPrice and taxRate.
C18_PriceWithTaxDerived ==
    Done =>
        \A p \in Range(normalized.products) :
            SuppliedPriceWithTax(p) = 0 =>
                p.priceWithTax = p.unitPrice + Pct(p.unitPrice, p.taxRate)

\* a taxed product without priceWithTax beside one that supplied its own
C18_Witness ==
    /\ Done
    /\ \E p \in Range(normalized.products) :
          /\ SuppliedPriceWithTax(p) = 0
          /\ p.taxRate > 0
          /\ p.priceWithTax > p.unitPrice
    /\ \E p \in Range(normalized.products) :
          /\ SuppliedPriceWithTax(p) # 0
          /\ p.priceWithTax # p.unitPrice + Pct(p.unitPrice, p.taxRate)

----------------------------------------------------------------------------
(* Order of the documents *)

\* the fragments a document can contribute: what its decoder returned, and
\* what an adapter returned for it
DocFragments ==
    SheetFragmentMenu \cup PdfFragmentMenu
        \cup {[EmptyFragment EXCEPT !.products = <<AiProduct>>]}

\* acc followed by frag, list by list
Followed(acc, frag) ==
    [products  |-> acc.products \o frag.products,
     customers |-> acc.customers \o frag.customers,
     invoices  |-> acc.invoices \o frag.invoices]

\* the request is inside the loop body of document fi
InDocument ==
    /\ fi <= Len(files)
    /\ pc \in {"merging", "csv_call", "bin_call", "pdf_call", "other_call"}

\* C19: within one request the documents are processed one at a time in
\* array order: the index moves from a document to the next one only, and only
\* when no extraction step of the document is outstanding; every extraction
\* step and every merge belongs to the document under the index; and each merge
\* puts one fragment of that document after everything merged before, so the
\* accumulator is the concatenation of the fragments in array order.
C19_OneDocumentAtATimeInOrder ==
    [][ /\ fi' \in {fi, fi + 1}
        /\ fi' = fi + 1 => InDocument /\ pc' = "merging" /\ aPc' = "idle"
        /\ aPc' # "idle" => InDocument /\ fi' = fi
        /\ merged' # merged =>
              /\ InDocument
              /\ \E frag \in DocFragments : merged' = Followed(merged, frag)
      ]_vars

\* a spreadsheet then a PDF: the spreadsheet's entities come first
C19_Witness ==
    /\ pc = "done"
    /\ files = <<"sheet", "pdf">>
    /\ merged = Followed(SheetFragment, PdfGood)

----------------------------------------------------------------------------
(* The deep probe *)

\* the route has answered a deep probe and says valid
ReportedValid ==
    IF pc = "answered" /\ output.returned
    THEN output.value.probed /\ output.value.valid
    ELSE FALSE

\* the route has answered a deep probe and says not valid
ReportedNotValid ==
    IF pc = "answered" /\ output.returned
    THEN output.value.probed /\ ~output.value.valid
    ELSE FALSE

\* C20: the deep probe reports valid exactly when at least one candidate
\* model/revision combination responded successfully to the probe: a report of
\* valid comes after a successful response, and a report of not valid comes
\* only when no combination responded successfully.
C20_ValidIffSomeCombinationResponds ==
    /\ ReportedValid => responded
    /\ ReportedNotValid => ~responded

----------------------------------------------------------------------------
(* The text extractor *)

PdfDone == pc = "extractFromPdfBuffer" /\ output.returned

\* C21: the Heuristic Text Extractor returns a fragment for every input, the
\* fragment holds at most one invoice, and on a decoder failure or an empty
\* (or blank) text it is the empty fragment.
C21_FragmentWithAtMostOneInvoice ==
    PdfDone =>
        /\ DOMAIN output.value = {"products", "customers", "invoices"}
        /\ Len(output.value.invoices) <= 1
        /\ (input.raises \/ \A i \in 1..Len(input.text) : input.text[i] = <<>>)
              => output.value = EmptyFragment

\* two item lines give two items on one invoice
C21_Witness ==
    /\ PdfDone
    /\ ~input.raises
    /\ Len(output.value.products) = 2
    /\ Len(output.value.invoices) = 1
    /\ Len(output.value.invoices[1].items) = 2

----------------------------------------------------------------------------
(* Escalation of a spreadsheet *)

\* the step is the mapper returning for the spreadsheet under the index
MapperReturns == AtDocument("sheet") /\ pc' # "failed"

\* the CSV-text call is over and gave at least one entity
CsvYieldedEntity ==
    /\ aPc = "returned"
    /\ FromJson(aResult).kind = "object"
    /\ Len(FromJson(aResult).frag.products) > 0

CsvCallOver == pc = "csv_call" /\ aPc \in {"returned", "thrown"}

\* C22 as stated: whenever the Column Mapper returns an entirely empty
\* fragment for a spreadsheet, the document is escalated, CSV-text call first
\* and binary call only after a CSV call that yielded no entity; a spreadsheet
\* whose mapper fragment is not empty is never escalated.
C22_EmptyMapperAlwaysEscalates ==
    [][ /\ MapperReturns =>
              IF merged' = merged THEN pc' = "csv_call" ELSE pc' = "merging"
        /\ pc' = "bin_call" /\ pc # "bin_call" => CsvCallOver /\ ~CsvYieldedEntity
      ]_vars

\* C22 amended: when an API key is configured and the Column Mapper returns an
\* entirely empty fragment for a spreadsheet, the document is escalated: to the
\* CSV-text call when the sheet has text, and to the binary call when the sheet
\* has no text or the CSV call failed or yielded no entity; a CSV call that
\* yielded an entity is never followed by the binary call.  A spreadsheet whose
\* mapper fragment is not empty, and any spreadsheet when no key is configured,
\* is never escalated.
C22_EmptyMapperEscalatesWithKey ==
    [][ /\ MapperReturns =>
              IF merged' = merged /\ API_KEY
              THEN pc' \in {"csv_call", "bin_call"} /\ aPc' = "fetch" /\ fi' = fi
              ELSE pc' = "merging" /\ fi' = fi + 1 /\ aPc' = "idle"
        /\ CsvCallOver => (pc' = "bin_call" <=> ~CsvYieldedEntity)
        /\ pc' = "bin_call" /\ pc # "bin_call" =>
              \/ CsvCallOver
              \/ MapperReturns /\ merged' = merged /\ API_KEY
      ]_vars

\* the CSV-text call of an escalated spreadsheet came back without an entity
C22_Witness ==
    /\ pc = "csv_call"
    /\ files[fi] = "sheet"
    /\ aPc = "returned"
    /\ ~CsvYieldedEntity
    /\ merged = EmptyFragment

----------------------------------------------------------------------------
(* Order of registration *)

\* the items of the invoices, invoice after invoice
RECURSIVE ItemsInOrder(_)
ItemsInOrder(invs) ==
    IF invs = <<>> THEN <<>> ELSE Head(invs).items \o ItemsInOrder(Tail(invs))

\* what normalize is asked to register as products, in the stated order:
\* the fragment-level products, then the items that carry no productId
ProductOccurrences ==
    [i \in 1..Len(cleaned.products) |->
        [name |-> cleaned.products[i].name, unitPrice |-> cleaned.products[i].unitPrice,
         taxRate |-> cleaned.products[i].taxRate, quantity |-> cleaned.products[i].quantity]]
    \o LET its == SelectSeq(ItemsInOrder(cleaned.invoices), LAMBDA it : it.productId = NoId)
       IN [i \in 1..Len(its) |->
              [name |-> its[i].productName, unitPrice |-> its[i].unitPrice,
               taxRate |-> its[i].taxRate, quantity |-> its[i].qty]]

\* what normalize is asked to register as customers, in the stated order:
\* the fragment-level customers, then each invoice's customer name
CustomerOccurrences ==
    [i \in 1..Len(cleaned.customers) |->
        [name |-> cleaned.customers[i].name, phone |-> cleaned.customers[i].phone]]
    \o [i \in 1..Len(cleaned.invoices) |->
           [name |-> cleaned.invoices[i].customerName, phone |-> ""]]

\* the positions of occs that are first for their key, in increasing order
RECURSIVE FirstPositions(_, _)
FirstPositions(occs, n) ==
    IF n = 0 THEN <<>>
    ELSE LET before == FirstPositions(occs, n - 1)
         IN IF occs[n].name # <<>>
               /\ \A h \in 1..(n - 1) : toLowerCase(occs[h].name) # toLowerCase(occs[n].name)
            THEN Append(before, n)
            ELSE before

\* C23: normalize registers the fragment-level products, then the
\* fragment-level customers, then per invoice its customer and its items; the
\* ids are prod_1..prod_k and cust_1..cust_m in that first-seen order, and a
\* deduplicated entity keeps the attributes of its first occurrence.
C23_FirstSeenOrderAndAttributes ==
    Done =>
        LET pf == FirstPositions(ProductOccurrences, Len(ProductOccurrences))
            cf == FirstPositions(CustomerOccurrences, Len(CustomerOccurrences))
        IN /\ Len(normalized.products) = Len(pf)
           /\ \A i \in 1..Len(pf) :
                 LET out == normalized.products[i]
                     occ == ProductOccurrences[pf[i]]
                 IN /\ out.id = <<"prod", i>>
                    /\ out.name = occ.name
                    /\ out.unitPrice = occ.unitPrice
                    /\ out.taxRate = occ.taxRate
                    /\ out.quantity = occ.quantity
           /\ Len(normalized.customers) = Len(cf)
           /\ \A i \in 1..Len(cf) :
                 LET out == normalized.customers[i]
                     occ == CustomerOccurrences[cf[i]]
                 IN /\ out.id = <<"cust", i>>
                    /\ out.name = occ.name
                    /\ out.phone = occ.phone

\* a fragment-level customer with a phone that an invoice names again, beside
\* a customer first seen on an invoice, and a product seen twice
C23_Witness ==
    /\ Done
    /\ Len(normalized.customers) >= 2
    /\ normalized.customers[1].phone # ""
    /\ \E v \in Range(normalized.invoices) : v.customerId = <<"cust", 1>>
    /\ Len(normalized.products) >= 2
    /\ Len(ProductOccurrences) > Len(normalized.products)

----------------------------------------------------------------------------
(* API revisions of one candidate *)

\* a request of this adapter call has been answered
AdapterAnswered == pc = "adapter" /\ nCalls > 0

\* the next request is for the next revision of the same candidate
NextRevisionSameCandidate == aPc = "fetch" /\ ci = lastCi /\ vi = lastVi + 1

\* no further revision of the candidate requested last is tried
RevisionsOver == (aPc # "fetch" \/ ci # lastCi) /\ (aPc = "fetch" => vi = 1)

\* C24: for each candidate model httpGenerateContent tries the configured
\* revision and then v1beta (once when they are the same); it moves to the next
\* revision only after an HTTP 404 whose body says the model is not found for
\* the API version, stops at the first successful revision, and on any other
\* failure tries no further revision of that model and hands the error to the
\* candidate loop.
C24_RevisionsInOrder ==
    /\ versionsToTry = IF env.API_VERSION = "v1beta" THEN <<"v1beta">>
                       ELSE <<env.API_VERSION, "v1beta">>
    /\ vi \in 1..Len(versionsToTry)
    /\ AdapterAnswered =>
          /\ lastVi \in 1..Len(versionsToTry)
          /\ IF lastOutcome.kind = "http" /\ lastOutcome.status = 404
                /\ Includes(Fold(lastOutcome.body), <<"not", "found", "for", "api", "version">>)
                /\ lastVi < Len(versionsToTry)
             THEN NextRevisionSameCandidate /\ httpLastErr = FailureMessage(lastOutcome)
             ELSE RevisionsOver
          /\ (IsFailure(lastOutcome) /\ ~NextRevisionSameCandidate)
                => lastErr = FailureMessage(lastOutcome)
          /\ NextRevisionSameCandidate => lastVi = 1 /\ lastOutcome.status = 404

\* the second revision answered after the first said not found for the version
C24_Witness ==
    /\ AdapterAnswered
    /\ nCalls = 2
    /\ lastCi = 1
    /\ lastVi = 2
    /\ Succeeded(lastOutcome)
    /\ aPc = "parse"

----------------------------------------------------------------------------
(* No key, no call *)

NoKeyConfigured == ~env.GEMINI_API_KEY /\ ~env.GOOGLE_API_KEY

\* no request to the external service is in progress or has been made
NoServiceCall ==
    /\ aPc \in {"idle", "returned"}
    /\ nCalls = 0
    /\ lastOutcome = NoOutcome
    /\ pc \notin AdapterCallers \cup {"probe"}

\* the loop body of a document ran to its end on the heuristic fragment alone
HeuristicOnly ==
    /\ fi' = fi + 1
    /\ CASE files[fi] = "sheet" -> \E frag \in SheetFragmentMenu : merged' = Followed(merged, frag)
         [] files[fi] = "pdf" -> \E frag \in PdfFragmentMenu : merged' = Followed(merged, frag)
         [] OTHER -> merged' = merged

\* C25: when no API key is configured no operation (extractFromFiles on any
\* batch, aiEcho, checkAIConnectivity behind GET /health) issues a call to the
\* external service; spreadsheets and PDFs contribute their heuristic
\* fragments only and every other file kind contributes the empty fragment.
C25_NoKeyNoCall ==
    [][ NoKeyConfigured =>
           /\ NoServiceCall'
           /\ (pc = "merging" /\ fi <= Len(files) /\ pc' # "failed") => HeuristicOnly
      ]_vars

\* without a key a spreadsheet and another file went through: the result
\* holds the spreadsheet's entities alone
C25_Witness ==
    /\ NoKeyConfigured
    /\ pc = "done"
    /\ files = <<"sheet", "other">>
    /\ merged = SheetFragment
    /\ NoServiceCall

----------------------------------------------------------------------------
(* The key the route sees and the key the pipeline sees *)

\* the route has answered
HealthAnswered == pc = "answered" /\ output.returned

\* C30: for every combination of GEMINI_API_KEY and GOOGLE_API_KEY being set
\* or not, the health endpoint reports ai.enabled = true exactly when the
\* extraction pipeline has an API key, and it runs the deep check exactly when
\* the deep flag is given and the pipeline has a key.
C30_EnabledIffPipelineHasKey ==
    HealthAnswered =>
        /\ output.value.enabled <=> (env.GEMINI_API_KEY \/ env.GOOGLE_API_KEY)
        /\ output.value.probed <=>
              (input.deep /\ (env.GEMINI_API_KEY \/ env.GOOGLE_API_KEY))

----------------------------------------------------------------------------
(* Properties of the client store *)

Slices == {"products", "customers", "invoices"}

NoDuplicate(s) == \A i, j \in 1..Len(s) : s[i] = s[j] => i = j

AllIdsAreTheKeys(state) ==
    /\ NoDuplicate(state.allIds)
    /\ Range(state.allIds) = DOMAIN state.byId

\* the step is an update of the slice on its own with an id not in byId
UpdateOfUnknownId ==
    /\ pc \in Slices
    /\ input'.type = "update"
    /\ input'.id \notin DOMAIN store[pc].byId

\* C28: in each slice of the client store, after any sequence of upsertMany
\* and update actions (ids repeated within one payload or across actions
\* included), allIds holds no duplicate and exactly the keys of byId; an
\* update with an id that is not in byId leaves the slice unchanged
C28_AllIdsAreTheKeys ==
    /\ [](\A s \in Slices : AllIdsAreTheKeys(store[s]))
    /\ [][UpdateOfUnknownId => store' = store]_vars

\* two ids are stored, one of them upserted more than once, and the last
\* action was an update with an id that is not in byId
C28_Witness ==
    /\ pc = "products"
    /\ Len(store.products.allIds) = 2
    /\ iProd1 \in DOMAIN store.products.byId
    /\ store.products.byId[iProd1].name = nB
    /\ store.products.byId[iProd1].unitPrice = 1000
    /\ input.type = "update"
    /\ input.id \notin DOMAIN store.products.byId

\* the last action was an update of an existing invoice whose patch replaces
\* the items and supplies neither tax nor totalAmount
ItemsReplaced ==
    /\ pc = "invoices"
    /\ input.type = "update"
    /\ input.id \in DOMAIN store.invoices.byId
    /\ Defined(input.patch, "items")
    /\ ~Defined(input.patch, "tax")
    /\ ~Defined(input.patch, "totalAmount")

\* C29: after an update of the invoices slice whose patch replaces the items
\* of an existing invoice without supplying tax or totalAmount, the stored
\* tax is the sum of unitPrice*qty*taxRate over the new items and the stored
\* totalAmount is subtotal + tax of the new items
C29_TotalsFollowNewItems ==
    ItemsReplaced =>
        LET inv   == store.invoices.byId[input.id]
            items == input.patch.items
        IN /\ inv.items = items
           /\ inv.tax = itemsTax(items)
           /\ inv.totalAmount = itemsSubtotal(items) + itemsTax(items)

\* the entity stored under the id of e denotes e: it carries the name of e
StillStored(slice, e) ==
    /\ e.id \in DOMAIN store[slice].byId
    /\ IdentityKey(store[slice].byId[e.id].name) = IdentityKey(e.name)

\* the invoice stored under the id of v is v, and resolves to the customer
\* and the products of the response first that carried it
InvoiceStillResolves(first, v) ==
    /\ v.id \in DOMAIN store.invoices.byId
    /\ store.invoices.byId[v.id].serialNumber = v.serialNumber
    /\ store.invoices.byId[v.id].customerId = v.customerId
    /\ \A c \in Range(first.customers) :
          c.id = v.customerId => StillStored("customers", c)
    /\ \A i \in 1..Len(v.items) : \A p \in Range(first.products) :
          p.id = v.items[i].productId => StillStored("products", p)

\* C26: upserting the response of a later request never overwrites an entity
\* stored from an earlier request that denotes a different entity: after two
\* responses every product, customer and invoice of the first is still in
\* the store under its id with its own name, and the invoices of the first
\* still resolve to the products and customers of the first
C26_LaterResponseKeepsEarlierEntities ==
    (pc = "upload" /\ Len(sent) = MaxResponses) =>
        LET first == sent[1] IN
        /\ \A p \in Range(first.products) : StillStored("products", p)
        /\ \A c \in Range(first.customers) : StillStored("customers", c)
        /\ \A v \in Range(first.invoices) : InvoiceStillResolves(first, v)

----------------------------------------------------------------------------
(* The PDF branch of extractFromFiles *)

\* acc is the beginning of acc2, list by list
Begins(acc, acc2) ==
    /\ Len(acc.products) <= Len(acc2.products)
    /\ SubSeq(acc2.products, 1, Len(acc.products)) = acc.products
    /\ Len(acc.customers) <= Len(acc2.customers)
    /\ SubSeq(acc2.customers, 1, Len(acc.customers)) = acc.customers
    /\ Len(acc.invoices) <= Len(acc2.invoices)
    /\ SubSeq(acc2.invoices, 1, Len(acc.invoices)) = acc.invoices

\* the external call of the PDF came back with a well-formed object
PdfCallGaveFragment ==
    /\ aPc = "returned"
    /\ FromJson(aResult).kind = "object"
    /\ ~FromJson(aResult).bad

\* C27: for a PDF document the heuristic fragment is always merged into the
\* accumulator, before any external call; the document is escalated exactly
\* when a key is configured and the Quality Heuristic says so, and then the
\* external fragment is merged after the heuristic one, in addition to it;
\* a failing external call leaves the accumulator, heuristic fragment
\* included, as it was.  A spreadsheet is escalated with nothing of the
\* mapper merged.
C27_PdfHeuristicKeptExternalAdded ==
    [][ /\ AtDocument("pdf") =>
              \E fromPdf \in PdfFragmentMenu :
                 /\ merged' = Followed(merged, fromPdf)
                 /\ IF API_KEY /\ shouldEnhanceWithAI(fromPdf)
                    THEN pc' = "pdf_call" /\ fi' = fi /\ aPc' = "fetch"
                    ELSE pc' = "merging" /\ fi' = fi + 1
        /\ pc = "pdf_call" /\ pc' = "pdf_call" => merged' = merged
        /\ pc = "pdf_call" /\ pc' # "pdf_call" =>
              /\ Begins(merged, merged')
              /\ aPc = "thrown" => merged' = merged
              /\ PdfCallGaveFragment =>
                    merged' = Followed(merged, FromJson(aResult).frag)
        /\ AtDocument("sheet") /\ pc' \in {"csv_call", "bin_call"} => merged' = merged
      ]_vars

\* a PDF whose heuristic fragment had no item was escalated, and the product
\* of the external fragment stands after the heuristic fragment
C27_Witness ==
    /\ Len(files) > 0
    /\ files[1] = "pdf"
    /\ fi = 2
    /\ pc = "merging"
    /\ merged = Followed(PdfNoItems, [EmptyFragment EXCEPT !.products = <<AiProduct>>])

====
